---- MODULE Spec2Model ----
(***************************************************************************)
(* Model of src/analizador_datos.py: the header-row detector               *)
(* (_es_encabezado_valido, _buscar_fila_encabezado), the value classifiers *)
(* (_detectar_tipo, _detectar_tipo_valor, _traducir_tipo_arrow) and the    *)
(* three analyzer passes (analizar_csv, analizar_excel, analizar_parquet). *)
(*                                                                         *)
(* Representation.  A Python str is a TLA+ string; its characters are read *)
(* with SubSeq.  A cell is a record [t, v]: t is type(value).__name__ and  *)
(* v is the text the value is written with (for a bool "1" or "0", for     *)
(* None the empty text); Str renders it as Python's str() does.  A float   *)
(* score is kept as an exact fraction [num, den] with den > 0 and compared *)
(* by cross multiplication, so the model computes the scores in exact      *)
(* arithmetic where the program rounds to binary64.                        *)
(* Indices of rows are 0-based as in the program; TLA+ sequences are       *)
(* 1-based, so row idx of a list is filas[idx + 1].                        *)
(***************************************************************************)
EXTENDS Integers, Sequences, FiniteSets, TLC

(***************************************************************************)
(* Program constants                                                       *)
(***************************************************************************)
CHUNK_SIZE == 10000
MUESTRA_VALORES == 5
MAX_FILAS_BUSQUEDA_HEADER == 20
min_columnas == 2
LARGO_MUESTRA == 50
FILAS_TIPADO == 1000
LARGO_TITULO_MIN == 2
LARGO_TITULO_MAX == 50
LARGO_DATOS == 100
LARGO_FECHA == 20
BATCH_PARQUET == 1000

(***************************************************************************)
(* Python str operations                                                   *)
(***************************************************************************)
Min(a, b) == IF a < b THEN a ELSE b

Ch(s, i) == IF 1 <= i /\ i <= Len(s) THEN SubSeq(s, i, i) ELSE ""

DIGITOS == {"0", "1", "2", "3", "4", "5", "6", "7", "8", "9"}

MINUSCULAS == "abcdefghijklmnopqrstuvwxyz"

MAYUSCULAS == "ABCDEFGHIJKLMNOPQRSTUVWXYZ"

IsSpace(c) == c \in {" ", "\t", "\n", "\r"}

IsDigit(c) == c \in DIGITOS

LETRAS_MIN == {Ch(MINUSCULAS, k) : k \in 1..Len(MINUSCULAS)}

LETRAS_MAY == {Ch(MAYUSCULAS, k) : k \in 1..Len(MAYUSCULAS)}

IsLower(c) == c \in LETRAS_MIN

IsUpper(c) == c \in LETRAS_MAY

\* str.lower() of each upper-case letter
EN_MINUSCULA ==
  [c \in LETRAS_MAY |->
     Ch(MINUSCULAS, CHOOSE k \in 1..Len(MAYUSCULAS) : Ch(MAYUSCULAS, k) = c)]

\* str.lower() of one character
LowerCh(c) == IF IsUpper(c) THEN EN_MINUSCULA[c] ELSE c

\* str.lower(), by halves
RECURSIVE Lower(_)
Lower(s) ==
  IF Len(s) <= 1 THEN LowerCh(s)
  ELSE LET m == Len(s) \div 2
       IN  Lower(SubSeq(s, 1, m)) \o Lower(SubSeq(s, m + 1, Len(s)))

\* The first position of s that holds no blank; len(s) + 1 when all are blank
PrimerLleno(s) ==
  CHOOSE i \in 1..(Len(s) + 1) :
    /\ i = Len(s) + 1 \/ ~IsSpace(Ch(s, i))
    /\ \A j \in 1..(i - 1) : IsSpace(Ch(s, j))

\* The last position of s that holds no blank; 0 when all are blank
UltimoLleno(s) ==
  CHOOSE i \in 0..Len(s) :
    /\ i = 0 \/ ~IsSpace(Ch(s, i))
    /\ \A j \in (i + 1)..Len(s) : IsSpace(Ch(s, j))

\* str.strip()
Strip(s) == SubSeq(s, PrimerLleno(s), UltimoLleno(s))

\* str.replace(a, b) for a one-character a, by halves
RECURSIVE Replace(_, _, _)
Replace(s, a, b) ==
  IF Len(s) <= 1 THEN (IF s = a THEN b ELSE s)
  ELSE LET m == Len(s) \div 2
       IN  Replace(SubSeq(s, 1, m), a, b) \o Replace(SubSeq(s, m + 1, Len(s)), a, b)

\* sub in s
Contains(s, sub) ==
  \E i \in 1..(Len(s) - Len(sub) + 1) : SubSeq(s, i, i + Len(sub) - 1) = sub

\* s[:n]
Prefijo(s, n) == SubSeq(s, 1, Min(Len(s), n))

\* str(n) of a natural number
RECURSIVE IntToStr(_)
IntToStr(n) ==
  IF n < 10 THEN Ch("0123456789", n + 1)
  ELSE IntToStr(n \div 10) \o Ch("0123456789", (n % 10) + 1)

\* The position after the digits (single underscores between digits allowed)
\* that start at position i of s; i itself when no digit starts there.
RECURSIVE SkipDigits(_, _)
SkipDigits(s, i) ==
  IF ~IsDigit(Ch(s, i)) THEN i
  ELSE IF IsDigit(Ch(s, i + 1)) THEN SkipDigits(s, i + 1)
  ELSE IF Ch(s, i + 1) = "_" /\ IsDigit(Ch(s, i + 2)) THEN SkipDigits(s, i + 2)
  ELSE i + 1

\* The position after an optional sign at the start of s
TrasSigno(s) == IF Ch(s, 1) \in {"+", "-"} THEN 2 ELSE 1

\* Digits from position a to the end of s, and at least one
SoloDigitos(s, a) == SkipDigits(s, a) > a /\ SkipDigits(s, a) = Len(s) + 1

IntSinBlancos(s) == SoloDigitos(s, TrasSigno(s))

\* Whether int(s) succeeds: optional blanks, optional sign, digits.
PyInt(s) == IntSinBlancos(Strip(s))

\* The exponent: s has an e at position d, then an optional sign and digits
FloatExponente(s, d) ==
  SoloDigitos(s, IF Ch(s, d + 1) \in {"+", "-"} THEN d + 2 ELSE d + 1)

\* The mantissa had digits (mant) and ended before position d
FloatResto(s, mant, d) ==
  mant /\ (IF Ch(s, d) \in {"e", "E"} THEN FloatExponente(s, d) ELSE d = Len(s) + 1)

\* The integer part ended before position b, where a point is; the fraction
\* ends before position d
FloatFraccion(s, a, b, d) == FloatResto(s, b > a \/ d > b + 1, d)

\* The integer part starts at a and ends before b
FloatEntero(s, a, b) ==
  IF Ch(s, b) = "." THEN FloatFraccion(s, a, b, SkipDigits(s, b + 1))
  ELSE FloatResto(s, b > a, b)

\* inf, infinity or nan in any case
FloatEspecial(s) == Len(s) <= 8 /\ Lower(s) \in {"inf", "infinity", "nan"}

FloatSinSigno(s, a) ==
  FloatEspecial(SubSeq(s, a, Len(s))) \/ FloatEntero(s, a, SkipDigits(s, a))

FloatSinBlancos(s) == FloatSinSigno(s, TrasSigno(s))

\* Whether float(s) succeeds: optional blanks, optional sign, then inf,
\* infinity or nan in any case, or digits with an optional point and an
\* optional exponent.
PyFloat(s) == FloatSinBlancos(Strip(s))

(***************************************************************************)
(* Cells                                                                   *)
(***************************************************************************)
Celda(t, v) == [t |-> t, v |-> v]

None == Celda("NoneType", "")

Texto(s) == Celda("str", s)

\* str(value)
Str(c) ==
  CASE c.t = "NoneType" -> "None"
    [] c.t = "bool" -> (IF c.v = "1" THEN "True" ELSE "False")
    [] OTHER -> c.v

\* bool(value): the truth value Python gives the cell in "if c"
Truthy(c) ==
  CASE c.t = "NoneType" -> FALSE
    [] c.t = "str" -> c.v # ""
    [] c.t = "int" -> c.v \notin {"0", "-0"}
    [] c.t = "float" -> c.v \notin {"0.0", "-0.0"}
    [] c.t = "bool" -> c.v = "1"
    [] OTHER -> TRUE

\* celda is None or str(celda).strip() == ''
EsVacia(c) == c.t = "NoneType" \/ Strip(Str(c)) = ""

(***************************************************************************)
(* Exact fractions for the float scores                                    *)
(***************************************************************************)
Rat(n, d) == [num |-> n, den |-> d]

RatGt(a, b) == a.num * b.den > b.num * a.den

RatSub(a, b) == Rat(a.num * b.den - b.num * a.den, a.den * b.den)

(***************************************************************************)
(* _es_encabezado_valido                                                   *)
(***************************************************************************)
palabras_header ==
  {"id", "nombre", "name", "fecha", "date", "codigo", "code", "tipo", "type",
   "descripcion", "description", "cantidad", "amount", "total", "precio", "price",
   "estado", "status", "usuario", "user", "email", "telefono", "phone",
   "direccion", "address", "ciudad", "city", "pais", "country", "numero", "number",
   "clave", "key", "valor", "value", "categoria", "category", "producto", "product",
   "cliente", "customer", "orden", "order", "factura", "invoice", "cuenta", "account",
   "año", "year", "mes", "month", "dia", "day", "hora", "time", "created", "updated"}

\* The lengths of the keywords
LARGOS_PALABRA == {Len(palabra) : palabra \in palabras_header}

\* any(palabra in celda_str for palabra in palabras_header): some substring of
\* the cell is a keyword
ContienePalabra(celda_str) ==
  \E i \in 1..Len(celda_str) :
    \E n \in LARGOS_PALABRA :
      i + n - 1 <= Len(celda_str) /\ SubSeq(celda_str, i, i + n - 1) \in palabras_header

\* re.match(r'^[a-zA-Z][a-zA-Z0-9_]*$', s)
EsIdentificador(s) ==
  /\ s # ""
  /\ IsLower(Ch(s, 1)) \/ IsUpper(Ch(s, 1))
  /\ \A i \in 2..Len(s) :
       IsLower(Ch(s, i)) \/ IsUpper(Ch(s, i)) \/ IsDigit(Ch(s, i)) \/ Ch(s, i) = "_"

\* A variant that rewards a number instead of penalising it
AporteCeldaSinCastigo(celda_str) ==
  IF PyFloat(Replace(celda_str, ",", ".")) THEN 3
  ELSE (IF ContienePalabra(celda_str) THEN 5 ELSE 0)
       + (IF EsIdentificador(celda_str) THEN 3 ELSE 0)
       + (IF LARGO_TITULO_MIN <= Len(celda_str) /\ Len(celda_str) <= LARGO_TITULO_MAX
          THEN 2 ELSE 0)
       - (IF Len(celda_str) > LARGO_DATOS THEN 5 ELSE 0)

\* What one non-empty cell adds to the score, in tenths; celda_str is the
\* cell stripped and lower-cased.
AporteCelda(celda_str) ==
  IF PyFloat(Replace(celda_str, ",", ".")) THEN -3
  ELSE (IF ContienePalabra(celda_str) THEN 5 ELSE 0)
       + (IF EsIdentificador(celda_str) THEN 3 ELSE 0)
       + (IF LARGO_TITULO_MIN <= Len(celda_str) /\ Len(celda_str) <= LARGO_TITULO_MAX
          THEN 2 ELSE 0)
       - (IF Len(celda_str) > LARGO_DATOS THEN 5 ELSE 0)

\* The loop over the cells: the tenths accumulated over cells i..len(fila)
RECURSIVE SumaAportes(_, _)
SumaAportes(fila, i) ==
  IF i > Len(fila) THEN 0
  ELSE (IF EsVacia(fila[i]) THEN 0 ELSE AporteCelda(Lower(Strip(Str(fila[i])))))
       + SumaAportes(fila, i + 1)

\* celdas_validas after the loop
CeldasValidas(fila) == Cardinality({i \in DOMAIN fila : ~EsVacia(fila[i])})

\* score = score / celdas_validas when celdas_validas > 0
Normalizar(suma, celdas_validas) ==
  IF celdas_validas > 0 THEN Rat(suma, 10 * celdas_validas) ELSE Rat(0, 1)

\* ratio_validas < 0.5, ratio_validas = celdas_validas / num_celdas or 0
EsRala(celdas_validas, num_celdas) ==
  IF num_celdas > 0 THEN 2 * celdas_validas < num_celdas ELSE TRUE

\* if ratio_validas < 0.5: score -= 0.5
Penalizar(score, celdas_validas, num_celdas) ==
  IF EsRala(celdas_validas, num_celdas) THEN RatSub(score, Rat(1, 2)) ELSE score

\* score > 0.1
SuperaUmbral(score) == RatGt(score, Rat(1, 10))

\* return score > 0.1, score
Veredicto(score) == [es |-> SuperaUmbral(score), score |-> score]

\* A variant that divides by the number of all cells of the row
PuntuarPorCeldas(suma, celdas_validas, num_celdas) ==
  Veredicto(Penalizar(Normalizar(suma, num_celdas), celdas_validas, num_celdas))

PuntuarCon(suma, celdas_validas, num_celdas) ==
  Veredicto(Penalizar(Normalizar(suma, celdas_validas), celdas_validas, num_celdas))

\* The body after the first guard: the loop, the normalisation, the penalty
\* and the threshold.
PuntuarFila(fila) == PuntuarCon(SumaAportes(fila, 1), CeldasValidas(fila), Len(fila))

\* len([c for c in fila if c])
NumTruthy(fila) == Cardinality({i \in DOMAIN fila : Truthy(fila[i])})

\* not fila or len([c for c in fila if c]) < min_columnas
FilaRechazada(fila) == Len(fila) = 0 \/ NumTruthy(fila) < min_columnas

_es_encabezado_valido(fila) ==
  IF FilaRechazada(fila) THEN [es |-> FALSE, score |-> Rat(0, 1)]
  ELSE PuntuarFila(fila)

(***************************************************************************)
(* _buscar_fila_encabezado                                                 *)
(***************************************************************************)
\* A variant that lets a row of equal score replace the best one
MejoraFilaEmpate(r, mejor) == r.es /\ ~RatGt(mejor.score, r.score)

\* es_header and score > mejor_score
MejoraFila(r, mejor) == r.es /\ RatGt(r.score, mejor.score)

\* One turn of the loop: r is what _es_encabezado_valido returned for fila
TrasFila(mejor, idx, fila, r) ==
  IF MejoraFila(r, mejor) THEN [score |-> r.score, idx |-> idx, fila |-> fila]
  ELSE mejor

\* The element of a one-element set
Uno(S) == CHOOSE x \in S : TRUE

\* The turns of the loop for the 0-based indices desde..hasta-1, in order;
\* mejor is [score, idx, fila].  antes is the value of mejor after the turns
\* before the middle, with which the later turns start.
RECURSIVE BuscarEntre(_, _, _, _)
BuscarEntre(filas, desde, hasta, mejor) ==
  IF desde >= hasta THEN mejor
  ELSE IF hasta = desde + 1
  THEN TrasFila(mejor, desde, filas[desde + 1], _es_encabezado_valido(filas[desde + 1]))
  ELSE Uno({BuscarEntre(filas, (desde + hasta) \div 2, hasta, antes) :
              antes \in {BuscarEntre(filas, desde, (desde + hasta) \div 2, mejor)}})

\* A variant whose loop runs over all of filas
BuscarSinTope(filas, idx, mejor) == BuscarEntre(filas, idx, Len(filas), mejor)

\* The loop over filas[:MAX_FILAS_BUSQUEDA_HEADER], from 0-based index idx on
BuscarDesde(filas, idx, mejor) ==
  BuscarEntre(filas, idx, Min(Len(filas), MAX_FILAS_BUSQUEDA_HEADER), mejor)

\* A variant that takes the placeholder for falsy cells only ("if not h")
LimpiarSoloFalsos(fila) ==
  [i \in 1..Len(fila) |->
     IF ~Truthy(fila[i]) THEN "Col_" \o IntToStr(i) ELSE Strip(Str(fila[i]))]

\* The name of the cell at position i of the chosen row
NombreLimpio(fila, i) ==
  IF EsVacia(fila[i]) THEN "Col_" \o IntToStr(i) ELSE Strip(Str(fila[i]))

\* A variant that tells repeated names apart by their position
LimpiarSinRepetidos(fila) ==
  [i \in 1..Len(fila) |->
     IF \E j \in 1..(i - 1) : NombreLimpio(fila, j) = NombreLimpio(fila, i)
     THEN NombreLimpio(fila, i) \o "_" \o IntToStr(i) ELSE NombreLimpio(fila, i)]

\* The cleaning of the chosen row
LimpiarEncabezados(fila) ==
  [i \in 1..Len(fila) |->
     IF EsVacia(fila[i]) THEN "Col_" \o IntToStr(i) ELSE Strip(Str(fila[i]))]

\* if not mejor_fila and filas
UsarPrimera(filas, mejor) == mejor.fila = <<>> /\ filas # <<>>

\* What follows the loop; aviso tells whether the callback, when there is
\* one, is called with the "Encabezados detectados" message.
ElegirEncabezado(filas, mejor) ==
  [idx |-> IF UsarPrimera(filas, mejor) THEN 0 ELSE mejor.idx,
   headers |-> LimpiarEncabezados(IF UsarPrimera(filas, mejor) THEN filas[1]
                                  ELSE mejor.fila),
   aviso |-> mejor.idx > 0]

\* mejor_score = -1; mejor_idx = 0; mejor_fila = []
MEJOR_INICIAL == [score |-> Rat(-1, 1), idx |-> 0, fila |-> <<>>]

\* Returns idx (0-based) and headers
_buscar_fila_encabezado(filas) ==
  ElegirEncabezado(filas, BuscarDesde(filas, 0, MEJOR_INICIAL))

(***************************************************************************)
(* _detectar_tipo, _detectar_tipo_valor, _traducir_tipo_arrow              *)
(***************************************************************************)
\* A variant that looks for the comma only
TieneSeparadorSoloComa(valor_str) == Contains(valor_str, ",")

\* '.' in valor_str or ',' in valor_str
TieneSeparador(valor_str) == Contains(valor_str, ".") \/ Contains(valor_str, ",")

_detectar_tipo(valor_str) ==
  IF valor_str = "" \/ Strip(valor_str) = "" THEN "texto"
  ELSE IF PyInt(Replace(Replace(valor_str, ",", ""), ".", ""))
       THEN (IF TieneSeparador(valor_str) THEN "decimal" ELSE "entero")
  ELSE IF PyFloat(Replace(valor_str, ",", ".")) THEN "decimal"
  ELSE IF /\ Contains(valor_str, "/") \/ Contains(valor_str, "-")
          /\ Len(valor_str) <= LARGO_FECHA
          /\ \E i \in 1..Len(valor_str) : IsDigit(Ch(valor_str, i))
       THEN "fecha"
  ELSE "texto"

_detectar_tipo_valor(valor) ==
  CASE valor.t = "NoneType" -> "texto"
    [] valor.t \in {"int", "int64", "int32"} -> "entero"
    [] valor.t \in {"float", "float64", "float32"} -> "decimal"
    [] valor.t = "datetime" -> "fecha"
    [] valor.t = "bool" -> "booleano"
    [] OTHER -> "texto"

\* A variant that names a sixth category for what it does not recognise
TipoDesconocido(tipo_arrow) == "desconocido"

\* else: return tipo_arrow  (the original is kept when it is not recognised)
TipoNoReconocido(tipo_arrow) == tipo_arrow

\* A variant that tries the text rule first
TraducirTextoPrimero(tipo_arrow) ==
  LET tipo_lower == Lower(tipo_arrow)
  IN  IF Contains(tipo_lower, "string") \/ Contains(tipo_lower, "utf8") THEN "texto"
      ELSE IF Contains(tipo_lower, "int") THEN "entero"
      ELSE IF Contains(tipo_lower, "float") \/ Contains(tipo_lower, "double")
           THEN "decimal"
      ELSE IF Contains(tipo_lower, "timestamp") \/ Contains(tipo_lower, "date")
           THEN "fecha"
      ELSE IF Contains(tipo_lower, "bool") THEN "booleano"
      ELSE TipoNoReconocido(tipo_arrow)

_traducir_tipo_arrow(tipo_arrow) ==
  LET tipo_lower == Lower(tipo_arrow)
  IN  IF Contains(tipo_lower, "int") THEN "entero"
      ELSE IF Contains(tipo_lower, "float") \/ Contains(tipo_lower, "double")
           THEN "decimal"
      ELSE IF Contains(tipo_lower, "timestamp") \/ Contains(tipo_lower, "date")
           THEN "fecha"
      ELSE IF Contains(tipo_lower, "bool") THEN "booleano"
      ELSE IF Contains(tipo_lower, "string") \/ Contains(tipo_lower, "utf8")
           THEN "texto"
      ELSE TipoNoReconocido(tipo_arrow)

(***************************************************************************)
(* _procesar_fila_datos and the inline cell loop of analizar_excel         *)
(***************************************************************************)
\* str(val)[:50]
Muestra(val) == Prefijo(Str(val), LARGO_MUESTRA)

\* A variant that admits one value more
HayCupoUnoMas(vistos) == Cardinality(vistos) <= MUESTRA_VALORES

\* len(valores_unicos[col]) < MUESTRA_VALORES
HayCupo(vistos) == Cardinality(vistos) < MUESTRA_VALORES

\* A variant that types every row
FilaTipadaSiempre(fila_num) == TRUE

\* fila_num <= 1000
FilaTipada(fila_num) == fila_num <= FILAS_TIPADO

\* A variant that lets every non-text value set the type
FijaTipoSiempre(actual, tipo) == tipo # "texto"

\* tipos_detectados[col] == 'texto' and tipo != 'texto'
FijaTipo(actual, tipo) == actual = "texto" /\ tipo # "texto"

\* set.add(m): a set that holds m already is left as it is
Agregar(S, m) == IF m \in S THEN S ELSE S \cup {m}

\* if len(valores_unicos[col]) < MUESTRA_VALORES: valores_unicos[col].add(m)
TrasMuestra(vu, col, m) ==
  IF HayCupo(vu[col]) THEN [vu EXCEPT ![col] = Agregar(@, m)] ELSE vu

\* if fila_num <= 1000: tipo = ...; if ...: tipos_detectados[col] = tipo
TrasTipo(tipos, col, tipo, fila_num) ==
  IF FilaTipada(fila_num) /\ FijaTipo(tipos[col], tipo)
  THEN [tipos EXCEPT ![col] = tipo] ELSE tipos

\* val and str(val).strip()
ValorCsvUtil(val) == Truthy(val) /\ Strip(Str(val)) # ""

\* One cell of a CSV data row: est is [vu, tipos], the sample sets and the
\* types by column name.
ProcesarCeldaCsv(val, col, est, fila_num) ==
  IF ValorCsvUtil(val)
  THEN [vu |-> TrasMuestra(est.vu, col, Muestra(val)),
        tipos |-> TrasTipo(est.tipos, col, _detectar_tipo(Str(val)), fila_num)]
  ELSE est

\* val is not None
ValorExcelUtil(val) == val.t # "NoneType"

\* One cell of an Excel data row
ProcesarCeldaExcel(val, col, est, filas_datos) ==
  IF ValorExcelUtil(val)
  THEN [vu |-> TrasMuestra(est.vu, col, Muestra(val)),
        tipos |-> TrasTipo(est.tipos, col, _detectar_tipo_valor(val), filas_datos)]
  ELSE est

\* A variant in which only the first position of a repeated name feeds it
RECURSIVE ProcesarCeldasPrimeraPosicion(_, _, _, _, _, _)
ProcesarCeldasPrimeraPosicion(row, i, headers, est, fila_num, excel) ==
  IF i > Len(row) THEN est
  ELSE LET tras == IF i <= Len(headers) /\ ~(\E j \in 1..(i - 1) : headers[j] = headers[i])
                   THEN (IF excel
                         THEN ProcesarCeldaExcel(row[i], headers[i], est, fila_num)
                         ELSE ProcesarCeldaCsv(row[i], headers[i], est, fila_num))
                   ELSE est
       IN  IF tras = est
           THEN ProcesarCeldasPrimeraPosicion(row, i + 1, headers, est, fila_num, excel)
           ELSE ProcesarCeldasPrimeraPosicion(row, i + 1, headers, tras, fila_num, excel)

\* for i, val in enumerate(row): if i < len(headers): ...; the cells from
\* position i (1-based) on.  A cell is worked out before the next one is
\* taken: tras is est unless the cell changed a sample set or a type.
RECURSIVE ProcesarCeldas(_, _, _, _, _, _)
ProcesarCeldas(row, i, headers, est, fila_num, excel) ==
  IF i > Len(row) THEN est
  ELSE LET tras == IF i <= Len(headers)
                   THEN (IF excel
                         THEN ProcesarCeldaExcel(row[i], headers[i], est, fila_num)
                         ELSE ProcesarCeldaCsv(row[i], headers[i], est, fila_num))
                   ELSE est
       IN  IF tras = est THEN ProcesarCeldas(row, i + 1, headers, est, fila_num, excel)
           ELSE ProcesarCeldas(row, i + 1, headers, tras, fila_num, excel)

_procesar_fila_datos(row, headers, est, fila_num) ==
  ProcesarCeldas(row, 1, headers, est, fila_num, FALSE)

\* The names of a header list
Nombres(headers) == {headers[i] : i \in DOMAIN headers}

\* valores_unicos[col] = set() and tipos_detectados[col] = 'texto' for each col
EstadoInicial(headers) ==
  [vu |-> [col \in Nombres(headers) |-> {}],
   tipos |-> [col \in Nombres(headers) |-> "texto"]]


\* A list with the elements of a set, in the order the choice gives
RECURSIVE EnLista(_)
EnLista(S) == IF S = {} THEN <<>> ELSE <<Uno(S)>> \o EnLista(S \ {Uno(S)})

Reverso(l) == [i \in 1..Len(l) |-> l[Len(l) + 1 - i]]

\* {k: list(v) for k, v in valores_unicos.items()}: the iteration order of a
\* set is not fixed by the program; al_reves picks one of two orders.
ListasDe(vu, al_reves) ==
  [col \in DOMAIN vu |-> IF al_reves THEN Reverso(EnLista(vu[col])) ELSE EnLista(vu[col])]

(***************************************************************************)
(* The sampling loop of analizar_parquet                                   *)
(***************************************************************************)
\* len(valores_unicos[col_name]) >= MUESTRA_VALORES
MuestraLlena(vistos) == Cardinality(vistos) >= MUESTRA_VALORES

\* A variant that looks at every row of the batch
FilasMiradasTodas(column) == Len(column)

\* min(len(column), MUESTRA_VALORES * 2)
FilasMiradas(column) == Min(Len(column), MUESTRA_VALORES * 2)

\* if val is not None: valores_unicos[col_name].add(str(val)[:50])
TrasValorParquet(vistos, val) ==
  IF val.t # "NoneType" THEN vistos \cup {Muestra(val)} ELSE vistos

\* for i in range(min(len(column), MUESTRA_VALORES * 2)), from 0-based i on
RECURSIVE MuestrearColumna(_, _, _)
MuestrearColumna(column, i, vistos) ==
  IF i >= FilasMiradas(column) \/ MuestraLlena(vistos) THEN vistos
  ELSE MuestrearColumna(column, i + 1, TrasValorParquet(vistos, column[i + 1]))

\* batch_size=min(1000, CHUNK_SIZE): the rows of the first batch
PrimerLote(filas) == SubSeq(filas, 1, Min(Len(filas), Min(BATCH_PARQUET, CHUNK_SIZE)))

\* batch.schema.get_field_index(col_name): the 0-based position of the field
\* of that name (the schemas of the model have distinct field names)
IndiceCampo(esquema, col_name) ==
  (CHOOSE i \in DOMAIN esquema : esquema[i].name = col_name) - 1

\* batch.column(col_idx): the values the rows of the batch hold at a 0-based
\* column position
ColumnaLote(lote, col_idx) == [f \in 1..Len(lote) |-> lote[f][col_idx + 1]]

(***************************************************************************)
(* Inputs                                                                  *)
(***************************************************************************)
MaxFilas == 2
MaxRelleno == 21
MaxHojas == 2
MaxRepetida == 4
MaxFilasParquet == 11

\* A file.  tipo is the analyzer its extension selects and lib tells whether
\* the library that decodes it can be imported.  filas are the rows the csv
\* reader yields, or the first rows of a Parquet file; hojas are the sheets of
\* a workbook, each [nombre, filas]; esquema and num_rows are the metadata of
\* a Parquet file.  falla = -1: opening the file raises; falla = -2: asking for its
\* size raises; falla = n > 0: the
\* n-th read of a row (of a batch, or of a column of the batch) raises;
\* falla = 0: nothing raises.  A long CSV file is written as its first rows,
\* filas, and the number cola of rows that follow them, the j-th of which is
\* FilaCola(j).
Archivo(tipo, lib, filas, hojas, esquema, num_rows, falla) ==
  [tipo |-> tipo, lib |-> lib, filas |-> filas, hojas |-> hojas,
   esquema |-> esquema, num_rows |-> num_rows, falla |-> falla, cola |-> 0]

ArchivoCsv(filas, falla) == Archivo("csv", TRUE, filas, <<>>, <<>>, 0, falla)

ArchivoExcel(lib, hojas, falla) == Archivo("excel", lib, <<>>, hojas, <<>>, 0, falla)

ArchivoParquet(lib, esquema, num_rows, filas, falla) ==
  Archivo("parquet", lib, filas, <<>>, esquema, num_rows, falla)

Hoja(nombre, filas) == [nombre |-> nombre, filas |-> filas]

Campo(name, type) == [name |-> name, type |-> type]

X51 == "abcdefghijklmnopqrstuvwxyzabcdefghijklmnopqrstuvwxyzA"

Y51 == "abcdefghijklmnopqrstuvwxyzabcdefghijklmnopqrstuvwxyzB"

X101 == X51 \o "abcdefghijklmnopqrstuvwxyzabcdefghijklmnopqrstuvwxyz"

SeqsHasta(S, n) == UNION {[1..m -> S] : m \in 0..n}

\* ---- CSV: every cell is a str ----
F_TITULO == <<Texto("Report 2024")>>

F_BLANCA == <<Texto(""), Texto("")>>

F_HEADER == <<Texto("id"), Texto("name"), Texto("amount")>>

F_DATOS == <<Texto("1"), Texto("Alice"), Texto("100.5")>>

F_DUP == <<Texto("id"), Texto(" id "), Texto("Fecha Alta")>>

F_ESPACIOS == <<Texto(" "), Texto("total"), Texto(" ")>>

F_MIXTA == <<Texto("x"), Texto("12/05/2024"), Texto(" "), Texto("extra")>>

F_VACIA == <<>>

F_LARGA == <<Texto(X51), Texto(Y51), Texto(X101)>>

F_NUMEROS == <<Texto("2024"), Texto(" 1,5"), Texto(""), Texto("NaN")>>

FilasCsv ==
  {F_TITULO, F_BLANCA, F_HEADER, F_DATOS, F_DUP, F_ESPACIOS, F_MIXTA, F_VACIA, F_LARGA,
   F_NUMEROS}

\* The i-th filler row: a data row whose first column takes a new value in
\* every row and whose other columns change type along the rows.
FilaRelleno(i) ==
  <<Texto(IntToStr(i)),
    Texto(IF i % 3 = 0 THEN "2024-01-05" ELSE IF i % 3 = 1 THEN "Alice" ELSE X51),
    Texto(IF i % 4 = 1 THEN "" ELSE IF i % 4 = 2 THEN "7" ELSE IF i % 4 = 3 THEN "1,5"
          ELSE "n/a")>>

Relleno(k) == [i \in 1..k |-> FilaRelleno(i)]

CabezasCsv == {<<>>, <<F_HEADER>>, <<F_TITULO, F_DUP>>}

ColasCsv == {<<>>, <<F_HEADER>>, <<F_HEADER, F_LARGA>>, <<F_DUP, F_HEADER, F_MIXTA>>}

ESCENARIO_A == <<F_TITULO, F_BLANCA, F_HEADER, F_DATOS>>

FilasDeCsv ==
  SeqsHasta(FilasCsv, MaxFilas)
    \cup {cab \o Relleno(k) \o cola :
            cab \in CabezasCsv, k \in 1..MaxRelleno, cola \in ColasCsv}
    \cup {ESCENARIO_A}

\* Files that are read to the end, and files whose reading raises at a row.
ArchivosCsv ==
  {ArchivoCsv(filas, 0) : filas \in FilasDeCsv}
    \cup {ArchivoCsv(cab \o Relleno(MaxRelleno), falla) :
            cab \in CabezasCsv, falla \in 1..(MaxRelleno + 2)}
    \cup {ArchivoCsv(ESCENARIO_A, -1)}

\* ---- Excel: cells hold native values ----
Entero(v) == Celda("int", v)

Flotante(v) == Celda("float", v)

Booleano(v) == Celda("bool", v)

Fecha(v) == Celda("datetime", v)

H_HEADER == <<Texto("id"), Texto("name"), Texto("amount")>>

H_DATOS == <<Entero("1"), Texto("Alice"), Flotante("100.5")>>

H_CERO == <<Texto("name"), Entero("0")>>

H_FALSO == <<Booleano("0"), Texto("total"), None>>

H_NONE == <<None, None>>

H_NUMEROS == <<Entero("2024"), Flotante("0.0"), Entero("7")>>

H_MIXTA == <<Texto(" "), Fecha("2024-01-05 00:00:00"), Booleano("1"), Texto("extra")>>

H_BLANCOS == <<Texto("  "), Texto("id"), Texto("")>>

H_DUP == <<Texto("name"), Texto("id"), Texto("id ")>>

FilasExcel == {H_HEADER, H_DATOS, H_CERO, H_FALSO, H_NONE, H_NUMEROS, H_MIXTA, H_BLANCOS}

FilaRellenoExcel(i) ==
  <<Entero(IntToStr(i)),
    IF i % 3 = 0 THEN Fecha("2024-01-05 00:00:00") ELSE IF i % 3 = 1 THEN Texto("Alice")
    ELSE Texto(X51),
    IF i % 4 = 1 THEN None ELSE IF i % 4 = 2 THEN Booleano("1")
    ELSE IF i % 4 = 3 THEN Flotante("1.5") ELSE Texto("n/a")>>

RellenoExcel(k) == [i \in 1..k |-> FilaRellenoExcel(i)]

CabezasExcel == {<<>>, <<H_HEADER>>}

ColasExcel == {<<>>, <<H_HEADER, H_MIXTA>>}

FilasDeHoja ==
  SeqsHasta(FilasExcel, MaxFilas)
    \cup {cab \o RellenoExcel(k) \o cola :
            cab \in CabezasExcel, k \in 1..MaxRelleno, cola \in ColasExcel}

\* The sheets the workbooks of several sheets are made of
HojasChicas ==
  {Hoja("Vacia", <<>>), Hoja("Datos", <<H_HEADER, H_DATOS>>),
   Hoja("Notas", <<H_NONE, H_HEADER, H_NUMEROS, H_MIXTA>>)}

ArchivosExcel ==
  {ArchivoExcel(TRUE, <<Hoja("Hoja1", filas)>>, 0) : filas \in FilasDeHoja}
    \cup {ArchivoExcel(TRUE, hojas, 0) : hojas \in SeqsHasta(HojasChicas, MaxHojas)}
    \cup {ArchivoExcel(TRUE, <<Hoja("Datos", <<H_HEADER, H_DATOS>>),
                              Hoja("Hoja2", <<H_HEADER>> \o RellenoExcel(3))>>, falla) :
            falla \in -1..7}
    \cup {ArchivoExcel(FALSE, <<Hoja("Datos", <<H_HEADER, H_DATOS>>)>>, 0)}
    \cup {ArchivoExcel(TRUE, <<Hoja("Repetida", <<H_DUP>> \o RellenoExcel(k))>>, 0) :
            k \in 1..MaxRepetida}

\* ---- Parquet ----
ESQUEMA_3 == <<Campo("id", "int64"), Campo("nombre", "string"), Campo("alta", "timestamp[ns]")>>

ESQUEMA_1 == <<Campo("texto", "string")>>

ESQUEMA_RARO ==
  <<Campo("ok", "bool"), Campo("precio", "double"), Campo("datos", "binary"),
    Campo("puntos", "list<item: int32>")>>

FilaParquet3(i) ==
  <<Entero(IntToStr(i % 7)),
    IF i % 2 = 0 THEN None ELSE Texto(IF i < 4 THEN X51 ELSE Y51 \o IntToStr(i)),
    Fecha("2024-01-05 00:00:00")>>

FilaParquet1(i) == <<IF i > 10 THEN Texto("tarde") ELSE IF i % 5 = 0 THEN None ELSE Texto("v" \o IntToStr(i % 4))>>

FilaParquetRaro(i) ==
  <<Booleano(IF i % 2 = 0 THEN "1" ELSE "0"), Flotante(IntToStr(i) \o ".5"), Texto(""),
    Texto("[" \o IntToStr(i) \o "]")>>

\* The rows of a Parquet file of n rows; of a file of more than MaxFilasParquet
\* rows, the first MaxFilasParquet ones
FilasParquet(esquema, n) ==
  [i \in 1..Min(n, MaxFilasParquet) |->
     IF esquema = ESQUEMA_3 THEN FilaParquet3(i)
     ELSE IF esquema = ESQUEMA_1 THEN FilaParquet1(i)
     ELSE FilaParquetRaro(i)]

FILAS_ESCENARIO_B == 1000000

ArchivosParquet ==
  {ArchivoParquet(TRUE, esquema, n, FilasParquet(esquema, n), falla) :
     esquema \in {ESQUEMA_3, ESQUEMA_1, ESQUEMA_RARO},
     n \in (0..MaxFilasParquet) \cup {FILAS_ESCENARIO_B},
     falla \in -1..3}
    \cup {ArchivoParquet(FALSE, ESQUEMA_1, 3, FilasParquet(ESQUEMA_1, 3), 0)}

Archivos == ArchivosCsv \cup ArchivosExcel \cup ArchivosParquet

\* ---- Long files ----
FILAS_ESCENARIO_C == 25000

FilasHoja == 1002

\* The j-th row after the first rows of a long CSV file: the first column is
\* text up to row 1000 and a number from row 1001 on, the second a number
\* from row 1000 on.
FilaCola(j) ==
  <<Texto(IF j <= 1000 THEN "n/a" ELSE "7"),
    Texto(IF j < 1000 THEN "x" ELSE "12"),
    Texto(IF j % 2 = 0 THEN "2024-01-05" ELSE "")>>

\* The same row with the native values of a sheet
FilaColaExcel(j) ==
  <<IF j <= 1000 THEN Texto("n/a") ELSE Entero("7"),
    IF j < 1000 THEN Texto("x") ELSE Entero("12"),
    IF j % 2 = 0 THEN Fecha("2024-01-05 00:00:00") ELSE None>>

ArchivoCsvLargo(filas, cola) == [ArchivoCsv(filas, 0) EXCEPT !.cola = cola]

\* The row at 1-based position i of a CSV file
FilaDe(a, i) == IF i <= Len(a.filas) THEN a.filas[i] ELSE FilaCola(i - Len(a.filas))

\* The number of rows of a CSV file
NumFilas(a) == Len(a.filas) + a.cola

\* First rows that end in the header: at index 0, at index 2 and at index 19
CabezasLargas ==
  {<<F_HEADER>>, <<F_TITULO, F_BLANCA, F_HEADER>>,
   [i \in 1..19 |-> F_BLANCA] \o <<F_HEADER>>}

ArchivosLargos ==
  {ArchivoCsvLargo(cab, FILAS_ESCENARIO_C) : cab \in CabezasLargas}
    \cup {ArchivoCsvLargo(<<F_HEADER>>, cola) : cola \in {CHUNK_SIZE - 1, CHUNK_SIZE}}
    \cup {ArchivoExcel(TRUE, <<Hoja("Larga", <<H_HEADER>> \o
                                               [j \in 1..FilasHoja |-> FilaColaExcel(j)])>>, 0)}

(***************************************************************************)
(* State                                                                   *)
(***************************************************************************)
VARIABLES
  archivo,          \* the file under analysis
  callback,         \* whether a progress callback was passed
  mensajes,         \* the messages the callback has received
  pc,               \* the position in the analyzer
  n_hoja,           \* sheets of the workbook already taken from wb.sheetnames
  leidas,           \* rows the reader (the iterator of the sheet) has yielded
  primeras_filas,
  todas_filas,
  idx_header,
  headers,
  valores_unicos,
  filas_leidas,     \* filas_leidas of analizar_csv, filas_datos of analizar_excel
  pos,              \* rows of the list (columns of the batch) the loop has taken
  hoja_info,
  resultado,
  cb_falla,         \* whether the callback raises when it is called
  lote,             \* archivos_encontrados of generar_reporte_datos
  n_archivo,        \* files of lote the batch loop has taken
  resultados,       \* resultados of generar_reporte_datos
  vuelta,           \* 1 in the first analysis of a file, 2 in a second one
  anterior          \* what the first analysis returned, and its callback

\* What an analyzer is given and what lies around a pass; no step of an
\* analyzer changes any of it
entrada == <<archivo, callback, cb_falla, lote, n_archivo, resultados, vuelta, anterior>>

filas_vistas == <<leidas, primeras_filas, todas_filas>>

encabezado == <<idx_header, headers>>

vars == <<archivo, callback, mensajes, pc, n_hoja, leidas, primeras_filas, todas_filas,
          idx_header, headers, valores_unicos, filas_leidas, pos, hoja_info, resultado,
          cb_falla, lote, n_archivo, resultados, vuelta, anterior>>

\* A result; a key the analyzer does not set holds its empty value, and error
\* is "" when the result has no error key.
Resultado(tipo) ==
  [tipo |-> tipo, columnas |-> <<>>, total_filas |-> 0, muestra_valores |-> <<>>,
   tipos_detectados |-> <<>>, fila_encabezado |-> 1, hojas |-> <<>>, error |-> ""]

\* hoja_info of one sheet
HojaInfo(nombre) ==
  [nombre |-> nombre, columnas |-> <<>>, total_filas |-> 0, muestra_valores |-> <<>>,
   tipos_detectados |-> <<>>, fila_encabezado |-> 1]

Mensaje(m, n) == [m |-> m, n |-> n]

\* callback(msg) when a callback was passed and si holds
Avisar(si, m, n) == IF callback /\ si THEN Append(mensajes, Mensaje(m, n)) ELSE mensajes

\* The callback is called, si holding, and raises
FallaAviso(si) == callback /\ cb_falla /\ si

\* The state in which a pass starts
Partida ==
  /\ mensajes = <<>>
  /\ pc = "inicio"
  /\ n_hoja = 0
  /\ leidas = 0
  /\ primeras_filas = <<>>
  /\ todas_filas = <<>>
  /\ idx_header = 0
  /\ headers = <<>>
  /\ valores_unicos = <<>>
  /\ filas_leidas = 0
  /\ pos = 0
  /\ hoja_info = HojaInfo("")
  /\ resultado = Resultado("")

\* What a first analysis returned: nothing yet
SinAnterior == [resultado |-> Resultado(""), callback |-> FALSE, cb_falla |-> FALSE]

\* One analysis of one file, outside a batch, with a callback that returns
UnaPasada ==
  /\ cb_falla = FALSE
  /\ lote = <<>>
  /\ n_archivo = 0
  /\ resultados = <<>>
  /\ vuelta = 1
  /\ anterior = SinAnterior

Init ==
  /\ archivo \in Archivos
  /\ callback \in BOOLEAN
  /\ Partida
  /\ UnaPasada

\* A variant that starts the data at the header row
PrimeraFilaDatosDesdeHeader(idx) == idx

\* primeras_filas[idx_header + 1:], todas_filas[idx_header + 1:]: the rows of
\* the list already behind when the loop over the data rows starts
PrimeraFilaDatos(idx) == idx + 1

\* A variant that drops a sheet that has no columns
AgregarHojaConColumnas(hojas, info) ==
  IF info.columnas = <<>> THEN hojas ELSE Append(hojas, info)

\* A variant that puts the sheet before the others
AgregarHojaAlInicio(hojas, info) == <<info>> \o hojas

\* resultado['hojas'].append(hoja_info)
AgregarHoja(hojas, info) == Append(hojas, info)

\* The rows read before the current sheet
RECURSIVE FilasDeHojas(_, _)
FilasDeHojas(hojas, n) == IF n = 0 THEN 0 ELSE Len(hojas[n].filas) + FilasDeHojas(hojas, n - 1)

\* The reads of a row done so far in the pass
Lecturas == leidas + (IF n_hoja > 1 THEN FilasDeHojas(archivo.hojas, n_hoja - 1) ELSE 0)

\* The next read raises
FallaLectura == archivo.falla = Lecturas + 1

\* Opening the file raises
FallaAbrir == archivo.falla = -1

\* os.path.getsize(ruta) raises, outside the try of the analyzer
FallaTamano == archivo.falla = -2

\* A variant that also saves the count of the rows processed
CapturarErrorConTotal(res) == [res EXCEPT !.error = "error", !.total_filas = filas_leidas]

\* except Exception as e: resultado['error'] = str(e)
CapturarError(res) == [res EXCEPT !.error = "error"]

\* return {'error': 'Instala ...', 'ruta': ruta}
SinLibreria == [Resultado("") EXCEPT !.error = "instala"]

(***************************************************************************)
(* analizar_csv                                                            *)
(***************************************************************************)
\* resultado = {...}; valores_unicos = {}; open(); the reader
CsvAbrir ==
  /\ pc = "inicio"
  /\ archivo.tipo = "csv"
  /\ IF FallaTamano
     THEN pc' = "excepcion" /\ UNCHANGED <<resultado, valores_unicos>>
     ELSE /\ valores_unicos' = <<>>
          /\ IF FallaAbrir
             THEN resultado' = CapturarError(Resultado("CSV")) /\ pc' = "retorno"
             ELSE resultado' = Resultado("CSV") /\ pc' = "csv_leer"
  /\ UNCHANGED <<entrada, mensajes, n_hoja, filas_vistas, encabezado, filas_leidas, pos,
                 hoja_info>>

\* i >= MAX_FILAS_BUSQUEDA_HEADER, i the 0-based index of the row just read
CorteLectura(i) == i >= MAX_FILAS_BUSQUEDA_HEADER

\* for i, row in enumerate(reader): primeras_filas.append(row); if i >= 20: break
CsvLeerFila ==
  /\ pc = "csv_leer"
  /\ IF leidas >= NumFilas(archivo)
     THEN /\ pc' = "csv_buscar"
          /\ UNCHANGED <<leidas, primeras_filas, resultado>>
     ELSE IF FallaLectura
     THEN /\ resultado' = CapturarError(resultado)
          /\ pc' = "retorno"
          /\ UNCHANGED <<leidas, primeras_filas>>
     ELSE /\ primeras_filas' = Append(primeras_filas, FilaDe(archivo, leidas + 1))
          /\ leidas' = leidas + 1
          /\ pc' = IF CorteLectura(leidas) THEN "csv_buscar" ELSE "csv_leer"
          /\ UNCHANGED resultado
  /\ UNCHANGED <<entrada, mensajes, n_hoja, todas_filas, encabezado, valores_unicos,
                 filas_leidas, pos, hoja_info>>

\* if not primeras_filas: return resultado; the header search and the set-up
\* of the per-column state
CsvBuscar ==
  /\ pc = "csv_buscar"
  /\ IF primeras_filas = <<>>
     THEN /\ pc' = "retorno"
          /\ UNCHANGED <<mensajes, encabezado, valores_unicos, filas_leidas, pos, resultado>>
     ELSE \E b \in {_buscar_fila_encabezado(primeras_filas)} :
            IF FallaAviso(b.aviso)
            THEN /\ mensajes' = Avisar(b.aviso, "encabezado", b.idx + 1)
                 /\ resultado' = CapturarError(resultado)
                 /\ pc' = "retorno"
                 /\ UNCHANGED <<encabezado, valores_unicos, filas_leidas, pos>>
            ELSE \E est \in {EstadoInicial(b.headers)} :
              /\ mensajes' = Avisar(b.aviso, "encabezado", b.idx + 1)
              /\ idx_header' = b.idx
              /\ headers' = b.headers
              /\ valores_unicos' = est.vu
              /\ resultado' = [resultado EXCEPT !.fila_encabezado = b.idx + 1,
                                                !.columnas = b.headers,
                                                !.tipos_detectados = est.tipos]
              /\ filas_leidas' = 0
              /\ pos' = PrimeraFilaDatos(b.idx)
              /\ pc' = "csv_buffer"
  /\ UNCHANGED <<entrada, n_hoja, filas_vistas, hoja_info>>

\* for row in primeras_filas[idx_header + 1:]
CsvProcesarBuffer ==
  /\ pc = "csv_buffer"
  /\ IF pos < Len(primeras_filas)
     THEN \E est \in {_procesar_fila_datos(primeras_filas[pos + 1], headers,
                       [vu |-> valores_unicos, tipos |-> resultado.tipos_detectados],
                       filas_leidas + 1)} :
              /\ filas_leidas' = filas_leidas + 1
              /\ valores_unicos' = est.vu
              /\ resultado' = [resultado EXCEPT !.tipos_detectados = est.tipos]
              /\ pos' = pos + 1
              /\ pc' = pc
     ELSE /\ pc' = "csv_resto"
          /\ UNCHANGED <<filas_leidas, valores_unicos, resultado, pos>>
  /\ UNCHANGED <<entrada, mensajes, n_hoja, filas_vistas, encabezado, hoja_info>>

\* A variant that holds at every row from CHUNK_SIZE on
EsDesdeChunk(n) == n >= CHUNK_SIZE

\* filas_leidas % CHUNK_SIZE == 0
EsMultiploChunk(n) == n % CHUNK_SIZE = 0

\* for row in reader
CsvProcesarResto ==
  /\ pc = "csv_resto"
  /\ IF leidas >= NumFilas(archivo)
     THEN /\ pc' = "csv_fin"
          /\ UNCHANGED <<mensajes, leidas, filas_leidas, valores_unicos, resultado>>
     ELSE IF FallaLectura
     THEN /\ resultado' = CapturarError(resultado)
          /\ pc' = "retorno"
          /\ UNCHANGED <<mensajes, leidas, filas_leidas, valores_unicos>>
     ELSE \E est \in {_procesar_fila_datos(FilaDe(archivo, leidas + 1), headers,
                       [vu |-> valores_unicos, tipos |-> resultado.tipos_detectados],
                       filas_leidas + 1)} :
              /\ leidas' = leidas + 1
              /\ filas_leidas' = filas_leidas + 1
              /\ valores_unicos' = est.vu
              /\ mensajes' = Avisar(EsMultiploChunk(filas_leidas + 1), "csv_filas",
                                    filas_leidas + 1)
              /\ IF FallaAviso(EsMultiploChunk(filas_leidas + 1))
                 THEN /\ resultado' = CapturarError([resultado EXCEPT
                                                       !.tipos_detectados = est.tipos])
                      /\ pc' = "retorno"
                 ELSE /\ resultado' = [resultado EXCEPT !.tipos_detectados = est.tipos]
                      /\ pc' = pc
  /\ UNCHANGED <<entrada, n_hoja, primeras_filas, todas_filas, encabezado, pos, hoja_info>>

\* resultado['total_filas'] = filas_leidas; resultado['muestra_valores'] = ...
CsvFin ==
  /\ pc = "csv_fin"
  /\ \E al_reves \in BOOLEAN :
       resultado' = [resultado EXCEPT !.total_filas = filas_leidas,
                                      !.muestra_valores = ListasDe(valores_unicos, al_reves)]
  /\ pc' = "retorno"
  /\ UNCHANGED <<entrada, mensajes, n_hoja, filas_vistas, encabezado, valores_unicos,
                 filas_leidas, pos, hoja_info>>

(***************************************************************************)
(* analizar_excel                                                          *)
(***************************************************************************)
\* import openpyxl; resultado = {...}; openpyxl.load_workbook(...)
ExcelAbrir ==
  /\ pc = "inicio"
  /\ archivo.tipo = "excel"
  /\ IF ~archivo.lib
     THEN resultado' = SinLibreria /\ pc' = "retorno"
     ELSE IF FallaTamano
     THEN pc' = "excepcion" /\ UNCHANGED resultado
     ELSE IF FallaAbrir
     THEN resultado' = CapturarError(Resultado("Excel")) /\ pc' = "retorno"
     ELSE resultado' = Resultado("Excel") /\ pc' = "excel_hoja"
  /\ UNCHANGED <<entrada, mensajes, n_hoja, filas_vistas, encabezado, valores_unicos,
                 filas_leidas, pos, hoja_info>>

\* for nombre_hoja in wb.sheetnames: callback(...); ws = wb[nombre_hoja];
\* hoja_info = {...}; primeras_filas = []; todas_filas = []; and, after the
\* last sheet, wb.close()
ExcelHoja ==
  /\ pc = "excel_hoja"
  /\ IF n_hoja < Len(archivo.hojas)
     THEN /\ n_hoja' = n_hoja + 1
          /\ mensajes' = Avisar(TRUE, "excel_hoja", n_hoja + 1)
          /\ IF FallaAviso(TRUE)
             THEN /\ resultado' = CapturarError(resultado)
                  /\ pc' = "retorno"
                  /\ UNCHANGED <<filas_vistas, hoja_info>>
             ELSE /\ hoja_info' = HojaInfo(archivo.hojas[n_hoja + 1].nombre)
                  /\ leidas' = 0
                  /\ primeras_filas' = <<>>
                  /\ todas_filas' = <<>>
                  /\ pc' = "excel_iter"
                  /\ UNCHANGED resultado
     ELSE /\ pc' = "retorno"
          /\ UNCHANGED <<mensajes, n_hoja, filas_vistas, hoja_info, resultado>>
  /\ UNCHANGED <<entrada, encabezado, valores_unicos, filas_leidas, pos>>

\* len(primeras_filas) < MAX_FILAS_BUSQUEDA_HEADER
CabeEnPrimeras(primeras) == Len(primeras) < MAX_FILAS_BUSQUEDA_HEADER

\* for row in ws.iter_rows(values_only=True): todas_filas.append(list(row));
\* if len(primeras_filas) < 20: primeras_filas.append(list(row))
ExcelLeerFila ==
  /\ pc = "excel_iter"
  /\ IF leidas >= Len(archivo.hojas[n_hoja].filas)
     THEN /\ pc' = "excel_buscar"
          /\ UNCHANGED <<filas_vistas, resultado>>
     ELSE IF FallaLectura
     THEN /\ resultado' = CapturarError(resultado)
          /\ pc' = "retorno"
          /\ UNCHANGED filas_vistas
     ELSE /\ todas_filas' = Append(todas_filas, archivo.hojas[n_hoja].filas[leidas + 1])
          /\ primeras_filas' = IF CabeEnPrimeras(primeras_filas)
                               THEN Append(primeras_filas,
                                           archivo.hojas[n_hoja].filas[leidas + 1])
                               ELSE primeras_filas
          /\ leidas' = leidas + 1
          /\ pc' = pc
          /\ UNCHANGED resultado
  /\ UNCHANGED <<entrada, mensajes, n_hoja, encabezado, valores_unicos, filas_leidas, pos,
                 hoja_info>>

\* if not primeras_filas: resultado['hojas'].append(hoja_info); continue; the
\* header search and the set-up of the per-column state
ExcelBuscar ==
  /\ pc = "excel_buscar"
  /\ IF primeras_filas = <<>>
     THEN /\ resultado' = [resultado EXCEPT !.hojas = AgregarHoja(@, hoja_info)]
          /\ pc' = "excel_hoja"
          /\ UNCHANGED <<mensajes, encabezado, valores_unicos, filas_leidas, pos, hoja_info>>
     ELSE \E b \in {_buscar_fila_encabezado(primeras_filas)} :
            IF FallaAviso(b.aviso)
            THEN /\ mensajes' = Avisar(b.aviso, "encabezado", b.idx + 1)
                 /\ resultado' = CapturarError(resultado)
                 /\ pc' = "retorno"
                 /\ UNCHANGED <<encabezado, valores_unicos, filas_leidas, pos, hoja_info>>
            ELSE \E est \in {EstadoInicial(b.headers)} :
              /\ mensajes' = Avisar(b.aviso, "encabezado", b.idx + 1)
              /\ idx_header' = b.idx
              /\ headers' = b.headers
              /\ valores_unicos' = est.vu
              /\ hoja_info' = [hoja_info EXCEPT !.fila_encabezado = b.idx + 1,
                                                !.columnas = b.headers,
                                                !.tipos_detectados = est.tipos]
              /\ filas_leidas' = 0
              /\ pos' = PrimeraFilaDatos(b.idx)
              /\ pc' = "excel_datos"
              /\ UNCHANGED resultado
  /\ UNCHANGED <<entrada, n_hoja, filas_vistas>>

\* The cell loop of one data row of a sheet
ProcesarFilaExcel(row, hdrs, est, filas_datos) ==
  ProcesarCeldas(row, 1, hdrs, est, filas_datos, TRUE)

\* for row in todas_filas[idx_header + 1:], and what follows the loop:
\* hoja_info['total_filas'] = filas_datos; hoja_info['muestra_valores'] = ...;
\* resultado['hojas'].append(hoja_info)
ExcelProcesarFila ==
  /\ pc = "excel_datos"
  /\ IF pos < Len(todas_filas)
     THEN \E est \in {ProcesarFilaExcel(todas_filas[pos + 1], headers,
                        [vu |-> valores_unicos, tipos |-> hoja_info.tipos_detectados],
                        filas_leidas + 1)} :
              /\ filas_leidas' = filas_leidas + 1
              /\ valores_unicos' = est.vu
              /\ hoja_info' = [hoja_info EXCEPT !.tipos_detectados = est.tipos]
              /\ mensajes' = Avisar(EsMultiploChunk(filas_leidas + 1), "excel_filas",
                                    filas_leidas + 1)
              /\ pos' = pos + 1
              /\ IF FallaAviso(EsMultiploChunk(filas_leidas + 1))
                 THEN resultado' = CapturarError(resultado) /\ pc' = "retorno"
                 ELSE pc' = pc /\ UNCHANGED resultado
     ELSE \E al_reves \in BOOLEAN :
            \E info \in {[hoja_info EXCEPT
                            !.total_filas = filas_leidas,
                            !.muestra_valores = ListasDe(valores_unicos, al_reves)]} :
              /\ hoja_info' = info
              /\ resultado' = [resultado EXCEPT !.hojas = AgregarHoja(@, info)]
              /\ pc' = "excel_hoja"
              /\ UNCHANGED <<mensajes, filas_leidas, valores_unicos, pos>>
  /\ UNCHANGED <<entrada, n_hoja, filas_vistas, encabezado>>

(***************************************************************************)
(* analizar_parquet                                                        *)
(***************************************************************************)
\* {field.name: _traducir_tipo_arrow(str(field.type)) for field in schema}
TiposDeEsquema(esquema) ==
  [col \in {esquema[i].name : i \in DOMAIN esquema} |->
     _traducir_tipo_arrow(esquema[CHOOSE i \in DOMAIN esquema : esquema[i].name = col].type)]

\* A variant that counts the rows it has at hand
TotalContado(a) == Len(a.filas)

\* metadata.num_rows
TotalDeMetadata(a) == a.num_rows

\* [field.name for field in schema]
ColumnasDeEsquema(esquema) == [i \in DOMAIN esquema |-> esquema[i].name]

\* import pyarrow; resultado = {...}; callback; pq.ParquetFile(ruta); the
\* three fields taken from the metadata; callback; valores_unicos = {...}
ParquetAbrir ==
  /\ pc = "inicio"
  /\ archivo.tipo = "parquet"
  /\ IF ~archivo.lib
     THEN /\ resultado' = SinLibreria
          /\ pc' = "retorno"
          /\ UNCHANGED <<mensajes, valores_unicos>>
     ELSE IF FallaTamano
     THEN /\ pc' = "excepcion"
          /\ UNCHANGED <<resultado, mensajes, valores_unicos>>
     ELSE IF FallaAviso(TRUE) \/ FallaAbrir
     THEN /\ resultado' = CapturarError(Resultado("Parquet"))
          /\ mensajes' = Avisar(TRUE, "parquet_metadata", 0)
          /\ pc' = "retorno"
          /\ UNCHANGED valores_unicos
     ELSE /\ resultado' = [Resultado("Parquet") EXCEPT
                             !.total_filas = TotalDeMetadata(archivo),
                             !.columnas = ColumnasDeEsquema(archivo.esquema),
                             !.tipos_detectados = TiposDeEsquema(archivo.esquema)]
          /\ mensajes' = IF callback
                         THEN mensajes \o <<Mensaje("parquet_metadata", 0),
                                            Mensaje("parquet_muestra", 0)>>
                         ELSE mensajes
          /\ valores_unicos' = [col \in {archivo.esquema[i].name : i \in DOMAIN archivo.esquema}
                                  |-> {}]
          /\ pc' = "parquet_lote"
  /\ UNCHANGED <<entrada, n_hoja, filas_vistas, encabezado, filas_leidas, pos, hoja_info>>

\* for batch in parquet_file.iter_batches(batch_size=min(1000, CHUNK_SIZE)):
\* the first batch is read, or there is none, or reading it raises and the
\* callback is told
ParquetLote ==
  /\ pc = "parquet_lote"
  /\ IF FallaLectura
     THEN /\ mensajes' = Avisar(TRUE, "parquet_nota", 0)
          /\ IF FallaAviso(TRUE)
             THEN resultado' = CapturarError(resultado) /\ pc' = "retorno"
             ELSE pc' = "parquet_fin" /\ UNCHANGED resultado
          /\ UNCHANGED <<leidas, todas_filas, pos>>
     ELSE IF archivo.filas = <<>>
     THEN /\ pc' = "parquet_fin"
          /\ UNCHANGED <<mensajes, leidas, todas_filas, pos, resultado>>
     ELSE /\ todas_filas' = PrimerLote(archivo.filas)
          /\ leidas' = leidas + 1
          /\ pos' = 0
          /\ pc' = "parquet_columna"
          /\ UNCHANGED <<mensajes, resultado>>
  /\ UNCHANGED <<entrada, n_hoja, primeras_filas, encabezado, valores_unicos, filas_leidas,
                 hoja_info>>

\* for col_name in resultado['columnas']: one column of the batch; a column
\* whose reading raises is skipped, the read counting as done; after the last
\* column, break
ParquetColumna ==
  /\ pc = "parquet_columna"
  /\ IF pos < Len(resultado.columnas)
     THEN /\ pos' = pos + 1
          /\ pc' = pc
          /\ \E col_name \in {resultado.columnas[pos + 1]} :
               IF MuestraLlena(valores_unicos[col_name])
               THEN UNCHANGED <<leidas, valores_unicos>>
               ELSE IF FallaLectura
               THEN leidas' = leidas + 1 /\ UNCHANGED valores_unicos
               ELSE /\ leidas' = leidas + 1
                    /\ valores_unicos' =
                         [valores_unicos EXCEPT ![col_name] =
                            MuestrearColumna(
                              ColumnaLote(todas_filas, IndiceCampo(archivo.esquema, col_name)),
                              0, @)]
     ELSE /\ pc' = "parquet_fin"
          /\ UNCHANGED <<leidas, valores_unicos, pos>>
  /\ UNCHANGED <<entrada, mensajes, n_hoja, primeras_filas, todas_filas, encabezado,
                 filas_leidas, hoja_info, resultado>>

\* resultado['muestra_valores'] = {k: list(v) for k, v in valores_unicos.items()}
ParquetFin ==
  /\ pc = "parquet_fin"
  /\ \E al_reves \in BOOLEAN :
       resultado' = [resultado EXCEPT !.muestra_valores = ListasDe(valores_unicos, al_reves)]
  /\ pc' = "retorno"
  /\ UNCHANGED <<entrada, mensajes, n_hoja, filas_vistas, encabezado, valores_unicos,
                 filas_leidas, pos, hoja_info>>

Next ==
  \/ CsvAbrir
  \/ CsvLeerFila
  \/ CsvBuscar
  \/ CsvProcesarBuffer
  \/ CsvProcesarResto
  \/ CsvFin
  \/ ExcelAbrir
  \/ ExcelHoja
  \/ ExcelLeerFila
  \/ ExcelBuscar
  \/ ExcelProcesarFila
  \/ ParquetAbrir
  \/ ParquetLote
  \/ ParquetColumna
  \/ ParquetFin

Spec == Init /\ [][Next]_vars

(***************************************************************************)
(* Passes over long files: the CSV and the Excel analyzers                 *)
(***************************************************************************)
InitLargo ==
  /\ archivo \in ArchivosLargos
  /\ callback \in BOOLEAN
  /\ Partida
  /\ UnaPasada

NextLargo ==
  \/ CsvAbrir
  \/ CsvLeerFila
  \/ CsvBuscar
  \/ CsvProcesarBuffer
  \/ CsvProcesarResto
  \/ CsvFin
  \/ ExcelAbrir
  \/ ExcelHoja
  \/ ExcelLeerFila
  \/ ExcelBuscar
  \/ ExcelProcesarFila

SpecLargo == InitLargo /\ [][NextLargo]_vars

(***************************************************************************)
(* generar_reporte_datos: the loop over the files found                    *)
(***************************************************************************)
MaxLote == 3

\* No file is under analysis
SinArchivo == ArchivoCsv(<<>>, 0)

\* Files of a directory: of each kind one that is analyzed, one whose size
\* cannot be read, one whose reading raises at a row and one whose library
\* is missing
ArchivosLote ==
  {ArchivoCsv(ESCENARIO_A, 0), ArchivoCsv(ESCENARIO_A, -2), ArchivoCsv(ESCENARIO_A, 3),
   ArchivoExcel(TRUE, <<Hoja("Datos", <<H_HEADER, H_DATOS>>)>>, 0),
   ArchivoExcel(FALSE, <<Hoja("Datos", <<H_HEADER, H_DATOS>>)>>, 0),
   ArchivoParquet(TRUE, ESQUEMA_1, 3, FilasParquet(ESQUEMA_1, 3), 0)}

Lotes == UNION {[1..n -> ArchivosLote] : n \in 0..MaxLote}

\* An entry of resultados: the dictionary and the ruta it carries, the ruta
\* of the i-th file found being written i
Entrada(ruta, res) == [ruta |-> ruta, res |-> res]

\* A variant that drops the file that raised
SinEntradaDeError(res, ruta) == res

\* resultados.append({'ruta': ruta, 'error': str(e)})
EntradaDeError(res, ruta) ==
  Append(res, Entrada(ruta, [Resultado("") EXCEPT !.error = "excepcion"]))

\* log("Buscando ..."); os.walk; log("Encontrados ...")
LoteBuscar ==
  /\ pc = "lote_inicio"
  /\ mensajes' = IF callback
                 THEN mensajes \o <<Mensaje("lote_buscando", 0),
                                    Mensaje("lote_encontrados", Len(lote))>>
                 ELSE mensajes
  /\ pc' = "lote_ciclo"
  /\ UNCHANGED <<entrada, n_hoja, filas_vistas, encabezado, valores_unicos, filas_leidas,
                 pos, hoja_info, resultado>>

\* for i, ruta in enumerate(archivos_encontrados): log("Analizando ...") and
\* the call of the analyzer of the extension; after the last file, the report
LoteSiguiente ==
  /\ pc = "lote_ciclo"
  /\ IF n_archivo < Len(lote)
     THEN /\ n_archivo' = n_archivo + 1
          /\ archivo' = lote[n_archivo + 1]
          /\ mensajes' = Avisar(TRUE, "lote_analizando", n_archivo + 1)
          /\ pc' = "inicio"
          /\ n_hoja' = 0
          /\ leidas' = 0
          /\ primeras_filas' = <<>>
          /\ todas_filas' = <<>>
          /\ idx_header' = 0
          /\ headers' = <<>>
          /\ valores_unicos' = <<>>
          /\ filas_leidas' = 0
          /\ pos' = 0
          /\ hoja_info' = HojaInfo("")
          /\ resultado' = Resultado("")
     ELSE /\ pc' = "reporte"
          /\ UNCHANGED <<archivo, n_archivo, mensajes, n_hoja, filas_vistas, encabezado,
                         valores_unicos, filas_leidas, pos, hoja_info, resultado>>
  /\ UNCHANGED <<callback, cb_falla, lote, resultados, vuelta, anterior>>

\* resultados.append(resultado)
LoteAgregar ==
  /\ pc = "retorno"
  /\ n_archivo > 0
  /\ resultados' = Append(resultados, Entrada(n_archivo, resultado))
  /\ pc' = "lote_ciclo"
  /\ UNCHANGED <<archivo, callback, cb_falla, lote, n_archivo, vuelta, anterior, mensajes,
                 n_hoja, filas_vistas, encabezado, valores_unicos, filas_leidas, pos,
                 hoja_info, resultado>>

\* except Exception as e: log("Error analizando ..."); resultados.append(...)
LoteCapturar ==
  /\ pc = "excepcion"
  /\ n_archivo > 0
  /\ mensajes' = Avisar(TRUE, "lote_error", n_archivo)
  /\ resultados' = EntradaDeError(resultados, n_archivo)
  /\ pc' = "lote_ciclo"
  /\ UNCHANGED <<archivo, callback, cb_falla, lote, n_archivo, vuelta, anterior, n_hoja,
                 filas_vistas, encabezado, valores_unicos, filas_leidas, pos, hoja_info,
                 resultado>>

InitLote ==
  /\ lote \in Lotes
  /\ archivo = SinArchivo
  /\ callback \in BOOLEAN
  /\ cb_falla = FALSE
  /\ n_archivo = 0
  /\ resultados = <<>>
  /\ vuelta = 1
  /\ anterior = SinAnterior
  /\ mensajes = <<>>
  /\ pc = "lote_inicio"
  /\ n_hoja = 0
  /\ leidas = 0
  /\ primeras_filas = <<>>
  /\ todas_filas = <<>>
  /\ idx_header = 0
  /\ headers = <<>>
  /\ valores_unicos = <<>>
  /\ filas_leidas = 0
  /\ pos = 0
  /\ hoja_info = HojaInfo("")
  /\ resultado = Resultado("")

NextLote ==
  \/ LoteBuscar
  \/ LoteSiguiente
  \/ LoteAgregar
  \/ LoteCapturar
  \/ CsvAbrir
  \/ CsvLeerFila
  \/ CsvBuscar
  \/ CsvProcesarBuffer
  \/ CsvProcesarResto
  \/ CsvFin
  \/ ExcelAbrir
  \/ ExcelHoja
  \/ ExcelLeerFila
  \/ ExcelBuscar
  \/ ExcelProcesarFila
  \/ ParquetAbrir
  \/ ParquetLote
  \/ ParquetColumna
  \/ ParquetFin

SpecLote == InitLote /\ [][NextLote]_vars

(***************************************************************************)
(* The same file analyzed twice, the second time in another run of the     *)
(* program, with a callback that returns, one that raises, or none         *)
(***************************************************************************)
\* Files whose analysis calls the callback at each of its call sites, and one
\* whose analysis never calls it
ArchivosDosVeces ==
  {ArchivoCsv(ESCENARIO_A \o <<F_MIXTA>>, 0),
   ArchivoCsv(<<F_HEADER, F_DATOS, F_MIXTA>>, 0),
   ArchivoCsvLargo(<<F_HEADER>>, CHUNK_SIZE),
   ArchivoExcel(TRUE, <<Hoja("Datos", <<H_HEADER, H_DATOS, H_MIXTA>>)>>, 0),
   ArchivoParquet(TRUE, ESQUEMA_3, 3, FilasParquet(ESQUEMA_3, 3), 0),
   ArchivoParquet(TRUE, ESQUEMA_3, 3, FilasParquet(ESQUEMA_3, 3), 1)}

\* The callbacks a caller may pass: none, one that returns, one that raises
Llamadas == {<<FALSE, FALSE>>, <<TRUE, FALSE>>, <<TRUE, TRUE>>}

\* The analyzer has returned and is called again on the same file
Repetir ==
  /\ pc = "retorno"
  /\ vuelta = 1
  /\ n_archivo = 0
  /\ vuelta' = 2
  /\ anterior' = [resultado |-> resultado, callback |-> callback, cb_falla |-> cb_falla]
  /\ \E ll \in Llamadas : callback' = ll[1] /\ cb_falla' = ll[2]
  /\ mensajes' = <<>>
  /\ pc' = "inicio"
  /\ n_hoja' = 0
  /\ leidas' = 0
  /\ primeras_filas' = <<>>
  /\ todas_filas' = <<>>
  /\ idx_header' = 0
  /\ headers' = <<>>
  /\ valores_unicos' = <<>>
  /\ filas_leidas' = 0
  /\ pos' = 0
  /\ hoja_info' = HojaInfo("")
  /\ resultado' = Resultado("")
  /\ UNCHANGED <<archivo, lote, n_archivo, resultados>>

InitDosVeces ==
  /\ archivo \in ArchivosDosVeces
  /\ \E ll \in Llamadas : callback = ll[1] /\ cb_falla = ll[2]
  /\ Partida
  /\ lote = <<>>
  /\ n_archivo = 0
  /\ resultados = <<>>
  /\ vuelta = 1
  /\ anterior = SinAnterior

NextDosVeces ==
  \/ Repetir
  \/ CsvAbrir
  \/ CsvLeerFila
  \/ CsvBuscar
  \/ CsvProcesarBuffer
  \/ CsvProcesarResto
  \/ CsvFin
  \/ ExcelAbrir
  \/ ExcelHoja
  \/ ExcelLeerFila
  \/ ExcelBuscar
  \/ ExcelProcesarFila
  \/ ParquetAbrir
  \/ ParquetLote
  \/ ParquetColumna
  \/ ParquetFin

SpecDosVeces == InitDosVeces /\ [][NextDosVeces]_vars

(***************************************************************************)
(* Properties                                                              *)
(***************************************************************************)
\* The header search has just returned and no data row has been processed
Detectado == pc \in {"csv_buffer", "excel_datos"} /\ filas_leidas = 0

\* Two scores are equal
RatEq(a, b) == a.num * b.den = b.num * a.den

\* What the scorer returns for each of the rows the search may look at
Puntajes == [i \in 1..Min(Len(primeras_filas), 20) |-> _es_encabezado_valido(primeras_filas[i])]

Elegibles(r) == {i \in DOMAIN r : r[i].es}

\* hdrs holds the cells of fila trimmed, a null or blank cell replaced by its
\* positional placeholder
EsLimpiezaDe(hdrs, fila) ==
  /\ Len(hdrs) = Len(fila)
  /\ \A i \in 1..Len(fila) :
       hdrs[i] = IF fila[i].t = "NoneType" \/ Strip(Str(fila[i])) = ""
                 THEN "Col_" \o IntToStr(i) ELSE Strip(Str(fila[i]))

\* The lists of a sample mapping hold at most 5 strings of at most 50 characters
ListasAcotadas(mv) ==
  \A c \in DOMAIN mv : Len(mv[c]) <= 5 /\ \A i \in 1..Len(mv[c]) : Len(mv[c][i]) <= 50

\* C1: in every state of a CSV, Excel or Parquet pass and in the returned
\* result, every column's sample holds at most 5 strings and every sampled
\* string has at most 50 characters.
C1_MuestrasAcotadas ==
  /\ \A c \in DOMAIN valores_unicos :
       /\ Cardinality(valores_unicos[c]) <= 5
       /\ \A m \in valores_unicos[c] : Len(m) <= 50
  /\ ListasAcotadas(resultado.muestra_valores)
  /\ ListasAcotadas(hoja_info.muestra_valores)
  /\ \A h \in DOMAIN resultado.hojas : ListasAcotadas(resultado.hojas[h].muestra_valores)

\* A CSV result with a full sample of a column that had more than 5 distinct
\* values, and a sampled string cut to 50 characters
C1_Witness ==
  /\ pc = "retorno"
  /\ archivo.tipo = "csv"
  /\ resultado.error = ""
  /\ resultado.total_filas >= 6
  /\ \E c \in DOMAIN resultado.muestra_valores :
       /\ Len(resultado.muestra_valores[c]) = 5
       /\ Cardinality({archivo.filas[f][1].v :
                         f \in (resultado.fila_encabezado + 1)..Len(archivo.filas)}) >= 6
       /\ c = resultado.columnas[1]
  /\ \E c \in DOMAIN resultado.muestra_valores :
       \E i \in 1..Len(resultado.muestra_valores[c]) :
         resultado.muestra_valores[c][i] = Prefijo(X51, 50)

\* The types of the columns of the pass under way
TiposEnCurso == IF archivo.tipo = "csv" THEN resultado.tipos_detectados
                ELSE hoja_info.tipos_detectados

\* C2: in a CSV or Excel pass every column's type starts at text, and a
\* type that has become non-text keeps that value for the rest of the pass.
C2_TipoFijo ==
  [][/\ (pc \in {"csv_buscar", "excel_buscar"} /\ primeras_filas # <<>>)
          => \A c \in DOMAIN TiposEnCurso' : TiposEnCurso'[c] = "texto"
     /\ (archivo.tipo \in {"csv", "excel"} /\ n_hoja' = n_hoja)
          => \A c \in DOMAIN TiposEnCurso :
               TiposEnCurso[c] # "texto"
                 => c \in DOMAIN TiposEnCurso' /\ TiposEnCurso'[c] = TiposEnCurso[c]]_vars

\* A CSV pass whose column was typed integer and later met a decimal and a text
C2_Witness ==
  /\ pc = "retorno"
  /\ archivo.tipo = "csv"
  /\ \E c \in DOMAIN resultado.tipos_detectados :
       /\ resultado.tipos_detectados[c] = "entero"
       /\ "7" \in valores_unicos[c]
       /\ "1,5" \in valores_unicos[c]
       /\ "n/a" \in valores_unicos[c]

\* C3: the header search returns the eligible row of the highest score among
\* the first 20 rows, the lowest index among rows that share that score, and
\* never an index of 20 or more.
C3_MejorElegible ==
  Detectado =>
    LET r == Puntajes
    IN  /\ idx_header < 20
        /\ Elegibles(r) # {} =>
             /\ idx_header + 1 \in Elegibles(r)
             /\ \A j \in Elegibles(r) :
                  /\ ~RatGt(r[j].score, r[idx_header + 1].score)
                  /\ RatEq(r[j].score, r[idx_header + 1].score) => j >= idx_header + 1

\* A search over 21 buffered rows: two rows of the first 20 tie at the top and
\* the row at index 20 scores higher than both
C3_Witness ==
  /\ Detectado
  /\ Len(primeras_filas) = 21
  /\ LET r == Puntajes
     IN  /\ \E j \in Elegibles(r) :
               j > idx_header + 1 /\ RatEq(r[j].score, r[idx_header + 1].score)
         /\ _es_encabezado_valido(primeras_filas[21]).es
         /\ RatGt(_es_encabezado_valido(primeras_filas[21]).score, r[idx_header + 1].score)

\* C4: when none of the first 20 rows is eligible and there is a row, the
\* search returns index 0 and the cleaned cells of row 0, whatever its score.
C4_PrimeraFila ==
  (Detectado /\ Elegibles(Puntajes) = {})
    => idx_header = 0 /\ EsLimpiezaDe(headers, primeras_filas[1])

\* A fallback to a row 0 of negative score that has a blank cell, with more
\* rows below it
C4_Witness ==
  /\ Detectado
  /\ Len(primeras_filas) >= 2
  /\ LET r == Puntajes
     IN  Elegibles(r) = {} /\ r[1].score.num < 0
  /\ \E i \in 1..Len(headers) : headers[i] = "Col_" \o IntToStr(i)

\* The fields of a result of no rows
SinDatos(r) ==
  /\ r.columnas = <<>>
  /\ r.total_filas = 0
  /\ DOMAIN r.tipos_detectados = {}
  /\ DOMAIN r.muestra_valores = {}

\* C5: an empty CSV file yields a result of no columns, no rows, empty type
\* and sample mappings and no error, the header search never having run; an
\* empty Excel sheet yields one nested result of that shape.
C5_SinFilas ==
  /\ (pc = "retorno" /\ archivo.tipo = "csv" /\ archivo.filas = <<>> /\ archivo.falla = 0)
       => SinDatos(resultado) /\ resultado.error = "" /\ mensajes = <<>>
  /\ (pc = "retorno" /\ archivo.tipo = "excel" /\ archivo.lib /\ archivo.falla = 0)
       => /\ resultado.error = ""
          /\ Len(resultado.hojas) = Len(archivo.hojas)
          /\ \A h \in DOMAIN archivo.hojas :
               archivo.hojas[h].filas = <<>>
                 => /\ SinDatos(resultado.hojas[h])
                    /\ resultado.hojas[h].nombre = archivo.hojas[h].nombre

\* A workbook whose empty sheet comes before a sheet of data
C5_Witness ==
  /\ pc = "retorno"
  /\ archivo.tipo = "excel"
  /\ Len(resultado.hojas) = 2
  /\ archivo.hojas[1].filas = <<>>
  /\ resultado.hojas[2].total_filas > 0

\* The row a result reports as header is row fe of filas, counted from 1
EncabezadoEnFila(r, filas) ==
  \/ r.columnas = <<>>
  \/ /\ 1 <= r.fila_encabezado
     /\ r.fila_encabezado <= Min(20, Len(filas))
     /\ EsLimpiezaDe(r.columnas, filas[r.fila_encabezado])

\* The row a result reports as header is a 0-based index within the first 20
IndiceBaseCero(r, filas) ==
  \/ r.columnas = <<>>
  \/ 0 <= r.fila_encabezado /\ r.fila_encabezado <= Min(20, Len(filas)) - 1

NoVacias(fila) == {i \in DOMAIN fila : ~(fila[i].t = "NoneType" \/ Strip(Str(fila[i])) = "")}

\* C7: a row of at least 2 non-empty cells whose normalized score after the
\* sparsity penalty is greater than 0.1 is flagged header-eligible.
C7_ElegiblePorPuntaje ==
  Detectado =>
    \A i \in 1..Min(Len(primeras_filas), 20) :
      (/\ Cardinality(NoVacias(primeras_filas[i])) >= 2
       /\ RatGt(PuntuarFila(primeras_filas[i]).score, Rat(1, 10)))
        => _es_encabezado_valido(primeras_filas[i]).es

\* Every non-empty cell of the row parses as a number
TodasNumericas(fila) ==
  \A i \in NoVacias(fila) : PyFloat(Replace(Lower(Strip(Str(fila[i]))), ",", "."))

\* C8: a row whose non-empty cells all parse as numbers scores at most 0 and
\* is not eligible, and it is chosen as header only by the fallback to row 0.
C8_NumericasNoElegibles ==
  Detectado =>
    LET r == Puntajes
    IN  /\ \A i \in DOMAIN r :
             TodasNumericas(primeras_filas[i]) => r[i].score.num <= 0 /\ ~r[i].es
        /\ TodasNumericas(primeras_filas[idx_header + 1])
             => idx_header = 0 /\ Elegibles(r) = {}

\* A row of numbers in three cells taken as header because no row is eligible
C8_Witness ==
  /\ Detectado
  /\ idx_header = 0
  /\ TodasNumericas(primeras_filas[1])
  /\ Cardinality(NoVacias(primeras_filas[1])) >= 3
  /\ _es_encabezado_valido(primeras_filas[1]).score.num < 0
  /\ Len(primeras_filas) >= 2

\* The columns and the types of Scenario A
ColumnasEscenarioA(r) ==
  /\ r.columnas = <<"id", "name", "amount">>
  /\ r.tipos_detectados = [id |-> "entero", name |-> "texto", amount |-> "decimal"]

MuestrasDeDatos(k) ==
  \A m \in valores_unicos[headers[k]] :
    \E f \in (idx_header + 2)..Len(archivo.filas) :
      \E j \in 1..Len(archivo.filas[f]) :
        /\ j <= Len(headers)
        /\ headers[j] = headers[k]
        /\ m = Prefijo(archivo.filas[f][j].v, 50)

\* C10: a successful analysis of a CSV file of N rows with the header at
\* 0-based index h returns totalRows = N - h - 1; the rows after the header
\* are processed one by one in order, first from the buffer and then from the
\* stream, and no sample comes from a row at or before the header.
C10_FilasTrasEncabezado ==
  /\ (pc = "retorno" /\ archivo.tipo = "csv" /\ resultado.error = "" /\ archivo.filas # <<>>)
       => resultado.total_filas = Len(archivo.filas) - idx_header - 1
  /\ (pc = "csv_buffer")
       => /\ pos = idx_header + 1 + filas_leidas
          /\ primeras_filas = SubSeq(archivo.filas, 1, leidas)
  /\ (pc \in {"csv_resto", "csv_fin"})
       => leidas = idx_header + 1 + filas_leidas
  /\ (archivo.tipo = "csv" /\ pc \in {"csv_buffer", "csv_resto", "csv_fin", "retorno"})
       => \A k \in 1..Len(headers) : MuestrasDeDatos(k)

\* A file of more rows than the buffer holds whose header is not its first
\* row, analysed to the end
C10_Witness ==
  /\ pc = "retorno"
  /\ archivo.tipo = "csv"
  /\ resultado.error = ""
  /\ Len(archivo.filas) > 21
  /\ idx_header > 0
  /\ resultado.total_filas = Len(archivo.filas) - idx_header - 1

\* A row-progress notification of the CSV pass
EsAvisoCsv(x) == x.m = "csv_filas"

\* C11: with a callback, the CSV pass has sent exactly one row-progress
\* notification for each multiple of 10,000 that the count of processed data
\* rows has reached, in order, and no other; a pass over D data rows ends with
\* floor(D / 10000) of them, wherever the header is.
C11_AvisoCadaDiezMil ==
  (archivo.tipo = "csv" /\ callback)
    => /\ SelectSeq(mensajes, EsAvisoCsv)
            = [i \in 1..(filas_leidas \div 10000) |-> Mensaje("csv_filas", 10000 * i)]
       /\ (pc = "retorno" /\ resultado.error = "" /\ NumFilas(archivo) > 0)
            => filas_leidas = NumFilas(archivo) - idx_header - 1

\* 25,000 data rows under a header at index 19: two notifications
C11_Witness ==
  /\ pc = "retorno"
  /\ archivo.tipo = "csv"
  /\ callback
  /\ idx_header = 19
  /\ resultado.total_filas = 25000
  /\ SelectSeq(mensajes, EsAvisoCsv)
       = <<Mensaje("csv_filas", 10000), Mensaje("csv_filas", 20000)>>

\* The Parquet file has been opened and its metadata read
MetadataLeida ==
  /\ archivo.tipo = "parquet"
  /\ \/ pc \in {"parquet_lote", "parquet_columna", "parquet_fin"}
     \/ pc = "retorno" /\ archivo.lib /\ archivo.falla # -1

\* C12: once the metadata of a Parquet file is read, and before any batch
\* is, totalRows, the columns and the column types are those of the metadata;
\* they stay so through the sampling, and a failure of the first batch or of
\* a column of it leaves them so and puts no error in the result.
C12_SoloMetadata ==
  /\ MetadataLeida
       => /\ resultado.total_filas = archivo.num_rows
          /\ resultado.columnas = [i \in DOMAIN archivo.esquema |-> archivo.esquema[i].name]
          /\ DOMAIN resultado.tipos_detectados
               = {archivo.esquema[i].name : i \in DOMAIN archivo.esquema}
          /\ \A i \in DOMAIN archivo.esquema :
               resultado.tipos_detectados[archivo.esquema[i].name]
                 = _traducir_tipo_arrow(archivo.esquema[i].type)
          /\ resultado.error = ""
  /\ pc = "parquet_lote" => leidas = 0 /\ todas_filas = <<>>

\* A file of 1,000,000 rows whose first batch cannot be read: the callback is
\* told, the metadata stand and no sample is taken
C12_Witness ==
  /\ pc = "retorno"
  /\ archivo.tipo = "parquet"
  /\ archivo.falla = 1
  /\ resultado.total_filas = 1000000
  /\ resultado.error = ""
  /\ mensajes # <<>>
  /\ mensajes[Len(mensajes)].m = "parquet_nota"
  /\ \A c \in DOMAIN resultado.muestra_valores : resultado.muestra_valores[c] = <<>>

\* The type names the three analyzers write themselves
CATEGORIAS == {"texto", "entero", "decimal", "fecha", "booleano"}

\* The five, and a sixth for the unknown
SEIS_CATEGORIAS == CATEGORIAS \cup {"desconocido", "unknown"}

ValoresDe(f) == {f[c] : c \in DOMAIN f}

\* Every type held by the result, by its sheets and by the sheet in progress
TiposDelResultado ==
  ValoresDe(resultado.tipos_detectados)
    \cup ValoresDe(hoja_info.tipos_detectados)
    \cup UNION {ValoresDe(resultado.hojas[i].tipos_detectados) : i \in DOMAIN resultado.hojas}

\* C13 (as the code has it): every column type of a CSV or Excel result is
\* one of texto, entero, decimal, fecha, booleano; a column type of a Parquet
\* result is one of these five or else the Arrow type name of that column,
\* unchanged; no result holds a type "unknown".
C13_CincoOTipoArrow ==
  /\ archivo.tipo # "parquet" => TiposDelResultado \subseteq CATEGORIAS
  /\ archivo.tipo = "parquet"
       => \A c \in DOMAIN resultado.tipos_detectados :
            \/ resultado.tipos_detectados[c] \in CATEGORIAS
            \/ \E i \in DOMAIN archivo.esquema :
                 /\ archivo.esquema[i].name = c
                 /\ resultado.tipos_detectados[c] = archivo.esquema[i].type
  /\ TiposDelResultado \cap {"desconocido", "unknown"} = {}

\* A Parquet result with a column of a recognised type and one whose Arrow
\* type is kept as it is
C13_Witness ==
  /\ pc = "retorno"
  /\ archivo.tipo = "parquet"
  /\ resultado.error = ""
  /\ \E c \in DOMAIN resultado.tipos_detectados : resultado.tipos_detectados[c] = "binary"
  /\ \E c \in DOMAIN resultado.tipos_detectados : resultado.tipos_detectados[c] \in CATEGORIAS

\* C13 as stated: every column type is one of the six categories
C13_Original == TiposDelResultado \subseteq SEIS_CATEGORIAS

\* The analysis of the file fails: a library is missing, the file cannot be
\* opened or sized, or reading one of its rows raises
FallaElArchivo(a) ==
  \/ a.tipo # "csv" /\ ~a.lib
  \/ a.falla \in {-1, -2}
  \/ a.tipo = "csv" /\ a.falla \in 1..NumFilas(a)
  \/ a.tipo = "excel" /\ a.falla \in 1..FilasDeHojas(a.hojas, Len(a.hojas))

\* The 'tipo' an analyzer writes in its result
Etiqueta(tipo) == IF tipo = "csv" THEN "CSV" ELSE IF tipo = "excel" THEN "Excel" ELSE "Parquet"

\* The batch loop is inside the analysis of a file
EnAnalisis == pc \notin {"lote_inicio", "lote_ciclo", "reporte"}

EntradasEnOrden ==
  /\ \A i \in DOMAIN resultados :
       /\ resultados[i].ruta = i
       /\ FallaElArchivo(lote[i]) <=> resultados[i].res.error # ""
       /\ ~FallaElArchivo(lote[i]) => resultados[i].res.tipo = Etiqueta(lote[i].tipo)
  /\ pc = "lote_ciclo" => Len(resultados) = n_archivo
  /\ pc = "reporte" => Len(resultados) = Len(lote)
  /\ EnAnalisis => Len(resultados) = n_archivo - 1 /\ archivo = lote[n_archivo]

\* C14: in a batch run, whichever files fail, resultados holds one entry per
\* file found, the i-th for the i-th file; the entry of a failing file, and
\* only it, carries an error; an analysis starts only from the loop and for
\* the file after the one analyzed last, so no file is analyzed twice and the
\* files after a failing one are analyzed.
C14_UnaEntradaPorArchivo ==
  /\ []EntradasEnOrden
  /\ [][pc' = "inicio" => pc = "lote_ciclo" /\ n_archivo' = n_archivo + 1]_vars

\* Three files: the size of the first cannot be read, the library of the
\* second is missing, the third is analyzed
C14_Witness ==
  /\ pc = "reporte"
  /\ Len(lote) = 3
  /\ Len(resultados) = 3
  /\ lote[1].falla = -2
  /\ resultados[1].res.error = "excepcion"
  /\ resultados[2].res.error = "instala"
  /\ resultados[3].res.error = ""
  /\ resultados[3].res.tipo = "CSV"
  /\ resultados[3].res.total_filas = 1

\* The samples held by the pass and by what it has returned so far
MuestrasTomadas ==
  UNION {valores_unicos[c] : c \in DOMAIN valores_unicos}
    \cup UNION {{resultado.muestra_valores[c][k] : k \in DOMAIN resultado.muestra_valores[c]} :
                  c \in DOMAIN resultado.muestra_valores}
    \cup UNION {UNION {{resultado.hojas[i].muestra_valores[c][k] :
                          k \in DOMAIN resultado.hojas[i].muestra_valores[c]} :
                         c \in DOMAIN resultado.hojas[i].muestra_valores} :
                  i \in DOMAIN resultado.hojas}

\* C15: no sample set ever holds the empty string or a string that is blank
\* after trimming, in any of the three analyzers.
C15_SinMuestrasVacias == \A m \in MuestrasTomadas : Strip(m) # ""

\* What a finished pass over a long file returned for its columns: of a CSV
\* file the result, of a workbook its one sheet
ColumnasLargo == IF archivo.tipo = "csv" THEN resultado ELSE resultado.hojas[1]

\* A pass over a long file has returned without an error
PasadaLarga ==
  /\ pc = "retorno"
  /\ resultado.error = ""
  /\ \/ archivo.tipo = "csv" /\ archivo.cola > FILAS_TIPADO
     \/ archivo.tipo = "excel" /\ Len(archivo.hojas[1].filas) > FILAS_TIPADO + 1

\* The data rows of the long file
FilasDeDatos ==
  IF archivo.tipo = "csv" THEN archivo.cola ELSE Len(archivo.hojas[1].filas) - 1

\* In the long files the column id holds "n/a" in the data rows 1..1000 and 7
\* from row 1001 on, and the column name holds 12 from row 1000 on.
TiposTrasMil ==
  PasadaLarga
    => /\ ColumnasLargo.tipos_detectados["id"] = "texto"
       /\ ColumnasLargo.tipos_detectados["name"] = "entero"
       /\ ColumnasLargo.total_filas = FilasDeDatos
       /\ \E k \in DOMAIN ColumnasLargo.muestra_valores["id"] :
            ColumnasLargo.muestra_valores["id"][k] = "7"

\* C16: in a CSV or Excel pass the step that processes data row k > 1000
\* leaves every column's type as it was and counts the row; a column whose
\* first non-text value is in row 1001 ends as text, with that value among
\* its samples and every row counted in the total.
C16_SinTipadoTrasMil ==
  /\ [][(filas_leidas' = filas_leidas + 1 /\ filas_leidas' > 1000)
          => TiposEnCurso' = TiposEnCurso]_vars
  /\ []TiposTrasMil

\* A CSV file of 25,000 data rows: id ends as text with 7 sampled, name as
\* integer
C16_Witness ==
  /\ PasadaLarga
  /\ archivo.tipo = "csv"
  /\ resultado.total_filas = 25000
  /\ resultado.tipos_detectados["id"] = "texto"
  /\ resultado.tipos_detectados["name"] = "entero"
  /\ \E k \in DOMAIN resultado.muestra_valores["id"] : resultado.muestra_valores["id"][k] = "7"

\* info is the result of the sheet hoja: it bears its name and counts the
\* rows that follow its header row
EsResultadoDe(info, hoja) ==
  /\ info.nombre = hoja.nombre
  /\ info.total_filas = IF hoja.filas = <<>> THEN 0
                        ELSE Len(hoja.filas) - info.fila_encabezado

\* C17: after a successful Excel analysis resultado.hojas holds one result
\* per sheet of the workbook, the i-th that of the i-th sheet; while sheet n
\* is read, searched or processed the results of the n - 1 sheets before it,
\* and only they, have been appended.
C17_HojasEnOrden ==
  archivo.tipo = "excel"
    => /\ (pc = "retorno" /\ archivo.lib /\ resultado.error = "")
            => Len(resultado.hojas) = Len(archivo.hojas)
       /\ \A i \in DOMAIN resultado.hojas :
            i <= Len(archivo.hojas) /\ EsResultadoDe(resultado.hojas[i], archivo.hojas[i])
       /\ pc \in {"excel_iter", "excel_buscar", "excel_datos"}
            => Len(resultado.hojas) = n_hoja - 1
       /\ pc = "excel_hoja" => Len(resultado.hojas) = n_hoja

\* A workbook of two sheets, Notas then Datos, analyzed to the end
C17_Witness ==
  /\ pc = "retorno"
  /\ archivo.tipo = "excel"
  /\ resultado.error = ""
  /\ Len(archivo.hojas) = 2
  /\ Len(resultado.hojas) = 2
  /\ resultado.hojas[1].nombre = "Notas"
  /\ resultado.hojas[1].total_filas = 2
  /\ resultado.hojas[2].nombre = "Datos"
  /\ resultado.hojas[2].total_filas = 1

\* The second analysis of the file has returned
DosVeces == pc = "retorno" /\ vuelta = 2

\* C18: a file analyzed twice with the same callback gives twice the same
\* result: header index, columns, total, types and, for every column, the same
\* samples in the same order.
C18_MismoResultado ==
  (DosVeces /\ callback = anterior.callback /\ cb_falla = anterior.cb_falla)
    => resultado = anterior.resultado

\* The samples of each column as a set
SinOrdenDe(mv) == [c \in DOMAIN mv |-> {mv[c][k] : k \in DOMAIN mv[c]}]

\* A result with the order of its samples left out
SinOrden(res) ==
  [res EXCEPT !.muestra_valores = SinOrdenDe(@),
              !.hojas = [i \in DOMAIN @ |->
                           [@[i] EXCEPT !.muestra_valores = SinOrdenDe(@)]]]

\* C19: whatever callback is passed, none, one that returns or one that
\* raises, the analyzer returns the same result for the same file (the order
\* of the samples, which C18 is about, left aside).
C19_AvisoSinEfecto ==
  DosVeces => SinOrden(resultado) = SinOrden(anterior.resultado)

\* The part of C19 the code keeps: a callback that returns changes nothing
AvisoQueRetornaSinEfecto ==
  (DosVeces /\ ~cb_falla /\ ~anterior.cb_falla)
    => SinOrden(resultado) = SinOrden(anterior.resultado)

\* The rows of the file or sheet the pass holds in its lists; todas_filas of
\* analizar_excel holds the rows of primeras_filas too
FilasRetenidas == IF archivo.tipo = "csv" THEN Len(primeras_filas) ELSE Len(todas_filas)

\* C20: at every point of a CSV or Excel pass the rows the analyzer holds are
\* at most the 20 of the header-search buffer, however many rows the file or
\* sheet has.
C20_RetencionAcotada ==
  archivo.tipo \in {"csv", "excel"} => FilasRetenidas <= MAX_FILAS_BUSQUEDA_HEADER

\* What the scorer returns for a row it rejects
EsRechazo(r) == ~r.es /\ r.score = Rat(0, 1)

\* C21: every row of fewer than 2 non-empty cells (neither null nor blank
\* after trimming) is rejected by the scorer, with score 0 and not eligible,
\* whitespace-only cells counting as empty.
C21_PocasCeldasRechazada ==
  Detectado =>
    \A i \in 1..Min(Len(primeras_filas), MAX_FILAS_BUSQUEDA_HEADER) :
      Cardinality(NoVacias(primeras_filas[i])) < 2
        => EsRechazo(_es_encabezado_valido(primeras_filas[i]))

\* Whether the text of a cell, trimmed and lower-cased, reads as a number
EsNumerica(celda_str) == PyFloat(Replace(celda_str, ",", "."))

\* The tenths the claim gives one non-empty cell: -3 and no bonus for a
\* number; otherwise 5 once for holding some keyword, 3 for the shape of an
\* identifier, 2 for a length of 2..50 and -5 for a length over 100
TantosDeCelda(celda_str) ==
  IF EsNumerica(celda_str) THEN -3
  ELSE (IF \E palabra \in palabras_header : Contains(celda_str, palabra) THEN 5 ELSE 0)
       + (IF EsIdentificador(celda_str) THEN 3 ELSE 0)
       + (IF Len(celda_str) \in 2..50 THEN 2 ELSE 0)
       + (IF Len(celda_str) > 100 THEN -5 ELSE 0)

\* The sum of the tenths over the cells of fila at the positions in S
RECURSIVE TantosDe(_, _)
TantosDe(fila, S) ==
  IF S = {} THEN 0
  ELSE TantosDeCelda(Lower(Strip(Str(fila[Uno(S)])))) + TantosDe(fila, S \ {Uno(S)})

\* The score the claim gives a row of n > 0 non-empty cells: the sum divided
\* by n, then less one half when the non-empty cells are fewer than half
PuntajeEsperado(fila) ==
  LET n == Cardinality(NoVacias(fila))
      cociente == Rat(TantosDe(fila, NoVacias(fila)), 10 * n)
  IN  IF 2 * n < Len(fila) THEN RatSub(cociente, Rat(1, 2)) ELSE cociente

\* The rows the header search has looked at and the scorer did not reject at
\* its first guard
FilasPuntuadas ==
  {i \in 1..Min(Len(primeras_filas), MAX_FILAS_BUSQUEDA_HEADER) :
     ~FilaRechazada(primeras_filas[i])}

\* C22: the score of a row the scorer does not reject is the sum of the
\* contributions of its non-empty cells divided by their number, less 0.5,
\* after the division, when they are fewer than half of the cells; a number
\* contributes -0.3 and nothing else, another cell +0.5 once for a keyword,
\* +0.3 for identifier shape, +0.2 for length 2..50, -0.5 for length over 100.
C22_PuntajeDeFila ==
  Detectado =>
    \A i \in FilasPuntuadas :
      NoVacias(primeras_filas[i]) # {}
        => RatEq(_es_encabezado_valido(primeras_filas[i]).score,
                 PuntajeEsperado(primeras_filas[i]))

\* The search has scored a row whose non-empty cells are fewer than half and
\* a row that holds both a number and a cell that is not a number
C22_Witness ==
  /\ Detectado
  /\ \E i \in FilasPuntuadas :
       /\ NoVacias(primeras_filas[i]) # {}
       /\ 2 * Cardinality(NoVacias(primeras_filas[i])) < Len(primeras_filas[i])
  /\ \E i \in FilasPuntuadas :
       \E j, k \in NoVacias(primeras_filas[i]) :
         /\ EsNumerica(Lower(Strip(Str(primeras_filas[i][j]))))
         /\ ~EsNumerica(Lower(Strip(Str(primeras_filas[i][k]))))

\* C23: the header list the detector returns has as many entries as the
\* chosen row has cells; entry i (0-based) is Col_{i+1} when cell i is null
\* or blank after trimming and the trimmed text of the cell otherwise, and
\* equal names at different positions are all kept, each in its position.
C23_EncabezadosLimpios ==
  Detectado => EsLimpiezaDe(headers, primeras_filas[idx_header + 1])

\* The chosen row gives the same name at two positions, one of them by
\* trimming
C23_Witness ==
  /\ Detectado
  /\ \E i, j \in DOMAIN headers :
       /\ i < j
       /\ headers[i] = headers[j]
       /\ Str(primeras_filas[idx_header + 1][j]) # headers[j]

\* C24: when the CSV analyzer comes to the header search it has read, and it
\* holds in its buffer, at most 20 rows of the file, however long the file is.
C24_BufferDeVeinte ==
  (archivo.tipo = "csv" /\ pc = "csv_buscar")
    => /\ Len(primeras_filas) <= MAX_FILAS_BUSQUEDA_HEADER
       /\ leidas <= MAX_FILAS_BUSQUEDA_HEADER

\* The cells that feed the column named col in a pass whose header is row fe
\* (counted from 1) of filas and whose columns are cols: the pairs <<row,
\* position>> of the non-empty cells of the data rows at the positions that
\* carry that name
CeldasDeColumna(filas, fe, cols, col) ==
  {p \in (fe + 1..Len(filas)) \X (1..Len(cols)) :
     /\ p[2] <= Len(filas[p[1]])
     /\ cols[p[2]] = col
     /\ ~EsVacia(filas[p[1]][p[2]])}

\* Row order, then position order
CeldaAntes(q, p) == q[1] < p[1] \/ (q[1] = p[1] /\ q[2] < p[2])

\* The first 5 distinct values, stringified and cut to 50 characters, of the
\* cells that feed the column: a value is taken when fewer than 5 distinct
\* values come before it
PrimerosDistintos(filas, fe, cols, col) ==
  LET celdas == CeldasDeColumna(filas, fe, cols, col)
      valor(p) == Muestra(filas[p[1]][p[2]])
  IN  {valor(p) : p \in {p \in celdas :
                          Cardinality({valor(q) : q \in {q \in celdas : CeldaAntes(q, p)}})
                            < MUESTRA_VALORES}}

\* The strings of a sample list
DeLista(lista) == {lista[i] : i \in DOMAIN lista}

\* The sample mapping of a result r of a pass over filas holds, for every
\* column, the first 5 distinct values of that column
MuestrasSonPrimeras(r, filas) ==
  \A col \in DOMAIN r.muestra_valores :
    DeLista(r.muestra_valores[col])
      = PrimerosDistintos(filas, r.fila_encabezado, r.columnas, col)

\* The samples of a CSV pass that ended without error are the first 5
\* distinct values of each column
MuestrasCsvSonPrimeras ==
  (pc = "retorno" /\ archivo.tipo = "csv" /\ archivo.cola = 0 /\ resultado.error = ""
     /\ resultado.columnas # <<>>)
    => MuestrasSonPrimeras(resultado, archivo.filas)

\* C25: for every column of a CSV or Excel pass the final sample set is the
\* first 5 distinct values, stringified and cut to 50 characters, among the
\* non-empty cells of the column in data-row order (all of them when they are
\* fewer), cells beyond the header length feeding no column.
C25_PrimerosCincoDistintos ==
  /\ MuestrasCsvSonPrimeras
  /\ \A h \in DOMAIN resultado.hojas :
       resultado.hojas[h].columnas # <<>>
         => MuestrasSonPrimeras(resultado.hojas[h], archivo.hojas[h].filas)

(***************************************************************************)
(* Passes over Parquet files of many storage types                         *)
(***************************************************************************)
MaxFilasTipos == 2

\* Type names as str(field.type) gives them, and some in other letter cases
TIPOS_ARROW ==
  {"int8", "int64", "uint16", "INT32", "halffloat", "float", "double", "Double",
   "timestamp[ns]", "timestamp[us, tz=UTC]", "date32[day]", "date64[ms]", "bool",
   "string", "large_string", "utf8", "binary", "large_binary", "null", "time64[us]",
   "duration[s]", "decimal128(10, 2)", "month_day_nano_interval", "list<item: int32>",
   "list<item: string>", "list<item: double>", "struct<x: bool, y: string>",
   "map<string, double>", "dictionary<values=string, indices=int32, ordered=0>",
   "struct<alta: date32[day], nota: string>", "fixed_size_binary[16]"}

ESQUEMA_ANIDADO ==
  <<Campo("lapso", "month_day_nano_interval"), Campo("par", "struct<x: bool, y: string>"),
    Campo("monto", "decimal128(10, 2)")>>

EsquemasDeTipos == {<<Campo("c", t)>> : t \in TIPOS_ARROW} \cup {ESQUEMA_ANIDADO}

\* The i-th row of a file of that schema: one text value per field
FilaDeTipos(esquema, i) == [k \in 1..Len(esquema) |-> Texto("v" \o IntToStr(i))]

ArchivosDeTipos ==
  {ArchivoParquet(TRUE, esquema, n, [i \in 1..n |-> FilaDeTipos(esquema, i)], 0) :
     esquema \in EsquemasDeTipos, n \in 0..MaxFilasTipos}

InitTipos ==
  /\ archivo \in ArchivosDeTipos
  /\ callback \in BOOLEAN
  /\ Partida
  /\ UnaPasada

NextTipos ==
  \/ ParquetAbrir
  \/ ParquetLote
  \/ ParquetColumna
  \/ ParquetFin

SpecTipos == InitTipos /\ [][NextTipos]_vars

\* The rules of the claim in their order: the tokens and the category
REGLAS_TIPO ==
  <<[tokens |-> {"int"}, categoria |-> "entero"],
    [tokens |-> {"float", "double"}, categoria |-> "decimal"],
    [tokens |-> {"timestamp", "date"}, categoria |-> "fecha"],
    [tokens |-> {"bool"}, categoria |-> "booleano"],
    [tokens |-> {"string", "utf8"}, categoria |-> "texto"]>>

\* The rules of which a token occurs in the lower-cased type name
ReglasQueAplican(nombre) ==
  {k \in DOMAIN REGLAS_TIPO : \E tok \in REGLAS_TIPO[k].tokens : Contains(Lower(nombre), tok)}

\* The category of the first rule that applies, or the name as it is
TipoSegunReglas(nombre) ==
  IF ReglasQueAplican(nombre) = {} THEN nombre
  ELSE REGLAS_TIPO[CHOOSE k \in ReglasQueAplican(nombre) :
                     \A j \in ReglasQueAplican(nombre) : k <= j].categoria

\* The metadata of the Parquet file has been read into the result
EsquemaLeido ==
  archivo.tipo = "parquet" /\ resultado.tipo = "Parquet" /\ resultado.columnas # <<>>

\* C26: the type recorded for a Parquet field is the category of the first
\* rule, in the order int, float or double, timestamp or date, bool, string
\* or utf8, of which a token occurs in the lower-cased type name, wherever in
\* the name it occurs, and the type name unchanged when there is none.
C26_PrimeraReglaQueAplica ==
  EsquemaLeido =>
    \A i \in DOMAIN archivo.esquema :
      resultado.tipos_detectados[archivo.esquema[i].name]
        = TipoSegunReglas(archivo.esquema[i].type)

\* A file whose fields are typed by a token inside another word (interval),
\* by a token of an earlier rule inside a nested type, and by no rule
C26_Witness ==
  /\ EsquemaLeido
  /\ pc = "retorno"
  /\ archivo.esquema = ESQUEMA_ANIDADO
  /\ resultado.tipos_detectados["lapso"] = "entero"
  /\ resultado.tipos_detectados["par"] = "booleano"
  /\ resultado.tipos_detectados["monto"] = "decimal128(10, 2)"

\* The rows of a Parquet file the sampling may look at: the first 10
FilasDeMuestra(a) == 1..Min(Len(a.filas), 2 * MUESTRA_VALORES)

\* The values, stringified and cut, that the field at position k holds in
\* those rows
ValoresAlInicio(a, k) ==
  {Muestra(a.filas[i][k]) : i \in {i \in FilasDeMuestra(a) : a.filas[i][k].t # "NoneType"}}

\* The first 5 distinct of them in row order
PrimerosAlInicio(a, k) ==
  LET llenas == {i \in FilasDeMuestra(a) : a.filas[i][k].t # "NoneType"}
  IN  {Muestra(a.filas[i][k]) :
         i \in {i \in llenas :
                  Cardinality({Muestra(a.filas[j][k]) : j \in {j \in llenas : j < i}})
                    < MUESTRA_VALORES}}

\* A Parquet pass has returned a result without error
ParquetTerminado ==
  archivo.tipo = "parquet" /\ pc = "retorno" /\ resultado.tipo = "Parquet"
    /\ resultado.error = ""

\* During a Parquet pass every sample comes from the first 10 rows; in the
\* result, unless the read of the batch failed, every column whose own read
\* did not fail holds the first 5 distinct values of those rows (the read of
\* the field at position k is read number k + 1 of the pass)
MuestrasDelInicio ==
  /\ (archivo.tipo = "parquet" /\ valores_unicos # <<>>)
       => \A k \in DOMAIN archivo.esquema :
            valores_unicos[archivo.esquema[k].name] \subseteq ValoresAlInicio(archivo, k)
  /\ ParquetTerminado
       => \A k \in DOMAIN archivo.esquema :
            /\ DeLista(resultado.muestra_valores[archivo.esquema[k].name])
                 \subseteq ValoresAlInicio(archivo, k)
            /\ archivo.falla \notin {1, k + 1}
                 => DeLista(resultado.muestra_valores[archivo.esquema[k].name])
                      = PrimerosAlInicio(archivo, k)

\* C27: the Parquet analyzer samples only from the first batch and, for each
\* column, only from its first min(batch length, 10) rows, so a value that
\* first appears at row 11 or later is never sampled; no second batch is
\* read; a column whose read fails is skipped and the samples of the other
\* columns are what they would be without the failure.
C27_MuestraDelPrimerLote ==
  /\ []MuestrasDelInicio
  /\ [][pc' = "parquet_lote" => pc = "inicio"]_vars
  /\ [][(archivo.tipo = "parquet" /\ todas_filas' # todas_filas)
          => pc = "parquet_lote" /\ todas_filas' = PrimerLote(archivo.filas)]_vars

\* A file of 11 rows whose 11th row holds a new value, returned with fewer
\* than 5 samples of that column and without that value
C27_Witness ==
  /\ ParquetTerminado
  /\ Len(archivo.filas) = 11
  /\ archivo.esquema = ESQUEMA_1
  /\ Len(resultado.muestra_valores["texto"]) \in 1..(MUESTRA_VALORES - 1)
  /\ Muestra(archivo.filas[11][1]) \notin DeLista(resultado.muestra_valores["texto"])
  /\ \A i \in 1..10 : archivo.filas[i][1] # archivo.filas[11][1]

\* A CSV pass has returned after its reading failed once the header was found
FallaTrasEncabezado ==
  /\ archivo.tipo = "csv"
  /\ pc = "retorno"
  /\ resultado.error # ""
  /\ resultado.columnas # <<>>

\* C28: when reading fails after the header detection of a CSV pass the
\* analyzer returns a result, raising nothing, with the error set, a total of
\* 0 rows and an empty sample mapping however many rows were processed, and
\* with the columns, the header row and the types set so far as they were.
C28_ErrorTrasEncabezado ==
  /\ [](FallaTrasEncabezado
          => /\ resultado.total_filas = 0
             /\ resultado.muestra_valores = <<>>
             /\ resultado.columnas = headers
             /\ resultado.fila_encabezado = idx_header + 1)
  /\ [][(archivo.tipo = "csv" /\ pc = "csv_resto" /\ leidas < NumFilas(archivo)
            /\ FallaLectura)
          => /\ pc' = "retorno"
             /\ resultado'.error # ""
             /\ resultado'.columnas = resultado.columnas
             /\ resultado'.fila_encabezado = resultado.fila_encabezado
             /\ resultado'.tipos_detectados = resultado.tipos_detectados]_vars

\* A failure after 20 data rows, of which some had set a type and filled a
\* sample set
C28_Witness ==
  /\ FallaTrasEncabezado
  /\ filas_leidas >= 20
  /\ \E col \in DOMAIN resultado.tipos_detectados :
       /\ resultado.tipos_detectados[col] # "texto"
       /\ Cardinality(valores_unicos[col]) = MUESTRA_VALORES

\* The cells that feed the name col in a pass: the pairs <<row, position>> of
\* the data rows at every position that carries the name, of the cells the
\* analyzer takes (a CSV cell that is not blank, an Excel cell that is not
\* None)
CeldasDelNombre(filas, fe, cols, col, excel) ==
  {p \in (fe + 1..Len(filas)) \X (1..Len(cols)) :
     /\ p[2] <= Len(filas[p[1]])
     /\ cols[p[2]] = col
     /\ IF excel THEN ValorExcelUtil(filas[p[1]][p[2]])
        ELSE ValorCsvUtil(filas[p[1]][p[2]])}

\* The category of one cell
TipoDeCelda(val, excel) ==
  IF excel THEN _detectar_tipo_valor(val) ELSE _detectar_tipo(Str(val))

\* The cells of the merged stream that may set the type: those of the first
\* 1000 data rows that are not text
CeldasConTipo(filas, fe, cols, col, excel) ==
  {p \in CeldasDelNombre(filas, fe, cols, col, excel) :
     /\ p[1] - fe <= FILAS_TIPADO
     /\ TipoDeCelda(filas[p[1]][p[2]], excel) # "texto"}

\* The type of the first of them in row order and position order, or text
TipoDelNombre(filas, fe, cols, col, excel) ==
  LET con == CeldasConTipo(filas, fe, cols, col, excel)
  IN  IF con = {} THEN "texto"
      ELSE LET p == CHOOSE p \in con : \A q \in con : q = p \/ CeldaAntes(p, q)
           IN  TipoDeCelda(filas[p[1]][p[2]], excel)

\* The first 5 distinct values of the merged stream
MuestraDelNombre(filas, fe, cols, col, excel) ==
  LET celdas == CeldasDelNombre(filas, fe, cols, col, excel)
      valor(p) == Muestra(filas[p[1]][p[2]])
  IN  {valor(p) : p \in {p \in celdas :
                          Cardinality({valor(q) : q \in {q \in celdas : CeldaAntes(q, p)}})
                            < MUESTRA_VALORES}}

\* The result r of a pass over filas keeps every position in columnas and
\* one type and one sample set per distinct name, fed by the merged stream
NombresFundidos(r, filas, excel) ==
  /\ Len(r.columnas) = Len(filas[r.fila_encabezado])
  /\ DOMAIN r.tipos_detectados = Nombres(r.columnas)
  /\ DOMAIN r.muestra_valores = Nombres(r.columnas)
  /\ \A col \in Nombres(r.columnas) :
       /\ r.tipos_detectados[col]
            = TipoDelNombre(filas, r.fila_encabezado, r.columnas, col, excel)
       /\ DeLista(r.muestra_valores[col])
            = MuestraDelNombre(filas, r.fila_encabezado, r.columnas, col, excel)

\* A name is carried by two positions of the header
Repetido(cols, col) == \E i, j \in DOMAIN cols : i < j /\ cols[i] = col /\ cols[j] = col

\* C29: when header positions carry the same name the CSV and Excel passes
\* keep every position in the columns and one type and one sample set for
\* the name, fed by the cells of all its positions in row order and position
\* order; the 5-sample cap and the first-non-text rule apply to that stream.
C29_NombresRepetidos ==
  /\ (pc = "retorno" /\ archivo.tipo = "csv" /\ archivo.cola = 0 /\ resultado.error = ""
        /\ resultado.columnas # <<>>)
       => NombresFundidos(resultado, archivo.filas, FALSE)
  /\ \A h \in DOMAIN resultado.hojas :
       resultado.hojas[h].columnas # <<>>
         => NombresFundidos(resultado.hojas[h], archivo.hojas[h].filas, TRUE)

\* A sheet whose repeated name got its type from the later position and holds
\* 5 samples drawn from both positions
C29_Witness ==
  /\ pc = "retorno"
  /\ archivo.tipo = "excel"
  /\ Len(resultado.hojas) = 1
  /\ Repetido(resultado.hojas[1].columnas, "id")
  /\ resultado.hojas[1].tipos_detectados["id"] = "booleano"
  /\ Len(resultado.hojas[1].muestra_valores["id"]) = MUESTRA_VALORES
  /\ {"Alice", "True"} \subseteq DeLista(resultado.hojas[1].muestra_valores["id"])
====
